---- MODULE Spec2Model ----
(***************************************************************************)
(* The ChatKit persistence layer of app/stores.py: InMemoryStore and        *)
(* PostgresStore, driven by the same sequence of calls.                     *)
(*                                                                         *)
(* A thread is [id, created_at]; a thread item is [id, created_at].        *)
(* Ids are small positive integers (compared as the database compares the  *)
(* id column); timestamps are small integers, so several rows may share    *)
(* one created_at.  NoCursor stands for after=None.                        *)
(***************************************************************************)
EXTENDS Integers, Sequences, FiniteSets, TLC

MaxThreads == 2
MaxItems == 2
MaxTime == 2
MaxLimit == 2
MaxOps == 3
MaxAttachments == 2

ThreadIds == 1..MaxThreads
ItemIds == 1..MaxItems
Times == 1..MaxTime
Limits == 0..MaxLimit
Orders == {"asc", "desc"}
NoCursor == 0
AttachmentIds == 1..MaxAttachments

VARIABLES
    threads,               \* InMemoryStore._threads: insertion-ordered dict, as a sequence
    items,                 \* InMemoryStore._items: thread id -> insertion-ordered dict
    chatkit_threads,       \* table chatkit_threads: id -> [created_at]
    chatkit_thread_items,  \* table chatkit_thread_items: id -> [thread_id, created_at, data]
    last,                  \* the journal: the last call and what each backend answered
    calls_left,            \* how many more calls the stores will receive
    listing,               \* a client paging through one thread's items
    sessions,              \* PostgresStore operations in progress, one per caller
    attachments,           \* InMemoryStore._attachments: id -> [upload_url]
    files,                 \* InMemoryAttachmentStore._files: id -> bytes
    chatkit_attachments,   \* table chatkit_attachments: id -> [data, upload_url, file_bytes]
    stored,                \* the ids store_file_bytes was called on, not deleted since
    attachment_last,       \* the journal of the attachment calls
    task,                  \* the in-memory operation that is running, statement by statement
    lock,                  \* InMemoryStore._lock is held
    files_lock,            \* InMemoryAttachmentStore._lock is held
    ENTITIES,              \* sql_builder's view of entities.ENTITIES, a module-level dict
    sql_request,           \* the arguments of the last build_sql call
    sql_result,            \* what that call returned or raised
    sql_previous,          \* what the call before it returned or raised
    sql_calls,             \* the number of build_sql calls so far
    db_query,              \* the last run_query call and what it did
    tool_call              \* the last query_ps_finance call and what it gave its caller

attachmentVars == <<attachments, files, chatkit_attachments, stored, attachment_last>>
lockVars == <<task, lock, files_lock>>
sqlVars == <<ENTITIES, sql_request, sql_result, sql_previous, sql_calls, db_query, tool_call>>

vars == <<threads, items, chatkit_threads, chatkit_thread_items, last, calls_left, listing,
          sessions, attachmentVars, lockVars, sqlVars>>

\* what a call on the thread stores, a step of a session, and an attachment call
\* leave alone
besideStores == <<sessions, attachmentVars, lockVars, sqlVars>>
besideSessions == <<attachmentVars, lockVars, sqlVars>>
besideAttachments == <<sessions, lockVars, sqlVars>>

(***************************************************************************)
(* Python's insertion-ordered dict, as a sequence of records with an id.   *)
(***************************************************************************)
Keys(d) == {d[k].id : k \in 1..Len(d)}

\* d.get(key): the index of the entry, 0 when absent
IndexOf(d, key) ==
    IF key \in Keys(d) THEN CHOOSE k \in 1..Len(d) : d[k].id = key ELSE 0

\* d[key] = value: in place when the key is present, appended otherwise
DictSet(d, value) ==
    IF value.id \in Keys(d)
    THEN [k \in 1..Len(d) |-> IF d[k].id = value.id THEN value ELSE d[k]]
    ELSE Append(d, value)

\* d.pop(key, None)
DictPop(d, key) == SelectSeq(d, LAMBDA e : e.id # key)

\* self._items.get(thread_id, {})
ItemsGet(its, thread_id) ==
    IF thread_id \in DOMAIN its THEN its[thread_id] ELSE <<>>

\* a function without one key, and with one key set
FnDrop(f, key) == [k \in (DOMAIN f) \ {key} |-> f[k]]
FnPut(f, key, value) == [k \in (DOMAIN f) \cup {key} |-> IF k = key THEN value ELSE f[k]]

(***************************************************************************)
(* list.sort(key=created_at, reverse=...): stable in both directions, so   *)
(* rows with equal created_at keep their insertion order.                  *)
(***************************************************************************)
RECURSIVE SortByCreatedAt(_, _)
SortByCreatedAt(rows, reverse) ==
    IF rows = <<>> THEN <<>>
    ELSE LET first == CHOOSE k \in 1..Len(rows) :
                          \A j \in 1..Len(rows) :
                              IF reverse
                              THEN rows[j].created_at < rows[k].created_at
                                   \/ (rows[j].created_at = rows[k].created_at /\ j >= k)
                              ELSE rows[j].created_at > rows[k].created_at
                                   \/ (rows[j].created_at = rows[k].created_at /\ j >= k)
             rest == [j \in 1..(Len(rows) - 1) |-> IF j < first THEN rows[j] ELSE rows[j + 1]]
         IN <<rows[first]>> \o SortByCreatedAt(rest, reverse)

\* thread_items[start_index : start_index + limit]
Slice(rows, start_index, limit) ==
    LET hi == IF start_index + limit < Len(rows) THEN start_index + limit ELSE Len(rows)
    IN IF start_index >= hi THEN <<>> ELSE SubSeq(rows, start_index + 1, hi)

\* Page(data, has_more, after), or the exception raised
Page(data, has_more, after) ==
    [err |-> "ok", data |-> data, has_more |-> has_more, after |-> after]
Raise(exc) == [err |-> exc, data |-> <<>>, has_more |-> FALSE, after |-> NoCursor]

\* a mistaken StartIndex: the cursor is not looked for
StartIndex_FromTheTop(rows, after) == 0

\* the loop "for idx, item in enumerate(rows): if item.id == after: start_index = idx + 1"
StartIndex(rows, after) ==
    IF after # NoCursor /\ after \in Keys(rows) THEN IndexOf(rows, after) ELSE 0

\* as SortSliceScan, but the cursor is returned whether or not rows remain
SortSliceScan_CursorAlways(rows, after, limit, order) ==
    LET sorted == SortByCreatedAt(rows, order = "desc")
        start_index == StartIndex(sorted, after)
        sliced == Slice(sorted, start_index, limit)
        has_more == start_index + limit < Len(sorted)
        next_after == IF sliced # <<>> THEN sliced[Len(sliced)].id ELSE NoCursor
    IN Page(sliced, has_more, next_after)

SortSliceScan(rows, after, limit, order) ==
    LET sorted == SortByCreatedAt(rows, order = "desc")
        start_index == StartIndex(sorted, after)
        sliced == Slice(sorted, start_index, limit)
        has_more == start_index + limit < Len(sorted)
        next_after == IF has_more /\ sliced # <<>> THEN sliced[Len(sliced)].id ELSE NoCursor
    IN Page(sliced, has_more, next_after)

(***************************************************************************)
(* InMemoryStore                                                           *)
(***************************************************************************)
InMemoryStore_load_thread(ths, thread_id) ==
    IF thread_id \notin Keys(ths) THEN "NotFoundError" ELSE "ok"

InMemoryStore_save_thread(ths, its, thread) ==
    [threads |-> DictSet(ths, thread),
     items |-> IF thread.id \in DOMAIN its THEN its ELSE FnPut(its, thread.id, <<>>),
     err |-> "ok"]

InMemoryStore_load_thread_items(its, thread_id, after, limit, order) ==
    SortSliceScan(ItemsGet(its, thread_id), after, limit, order)

InMemoryStore_load_threads(ths, limit, after, order) ==
    SortSliceScan(ths, after, limit, order)

\* as add_thread_item, but without the check that the thread exists
InMemoryStore_add_thread_item_NoCheck(ths, its, thread_id, item) ==
    [threads |-> ths,
     items |-> FnPut(its, thread_id, DictSet(ItemsGet(its, thread_id), item)),
     err |-> "ok"]

InMemoryStore_add_thread_item(ths, its, thread_id, item) ==
    IF thread_id \notin Keys(ths)
    THEN [threads |-> ths, items |-> its, err |-> "NotFoundError"]
    ELSE [threads |-> ths,
          items |-> FnPut(its, thread_id, DictSet(ItemsGet(its, thread_id), item)),
          err |-> "ok"]

InMemoryStore_save_item(ths, its, thread_id, item) ==
    IF thread_id \notin Keys(ths)
    THEN [threads |-> ths, items |-> its, err |-> "NotFoundError"]
    ELSE IF item.id \notin Keys(ItemsGet(its, thread_id))
    THEN [threads |-> ths, items |-> its, err |-> "NotFoundError"]
    ELSE [threads |-> ths,
          items |-> FnPut(its, thread_id, DictSet(its[thread_id], item)),
          err |-> "ok"]

InMemoryStore_load_item(ths, its, thread_id, item_id) ==
    IF thread_id \notin Keys(ths) THEN "NotFoundError"
    ELSE IF item_id \notin Keys(ItemsGet(its, thread_id)) THEN "NotFoundError"
    ELSE "ok"

InMemoryStore_delete_thread(ths, its, thread_id) ==
    [threads |-> DictPop(ths, thread_id),
     items |-> IF thread_id \in DOMAIN its THEN FnDrop(its, thread_id) ELSE its,
     err |-> "ok"]

\* the pop acts on the stored dict, or on a fresh {} when the thread has none
InMemoryStore_delete_thread_item(ths, its, thread_id, item_id) ==
    [threads |-> ths,
     items |-> IF thread_id \in DOMAIN its
               THEN FnPut(its, thread_id, DictPop(its[thread_id], item_id))
               ELSE its,
     err |-> "ok"]

(***************************************************************************)
(* PostgresStore.  Every operation runs in a session of its own, closed on *)
(* exit; what was not committed is rolled back.  The tables enforce the    *)
(* primary keys and the foreign key (ON DELETE CASCADE) of app/models.py.  *)
(***************************************************************************)
\* the row comparison (created_at, id) < (created_at, id) of the database
TupleLess(c1, id1, c2, id2) == c1 < c2 \/ (c1 = c2 /\ id1 < id2)

\* comparator < anchor_key for desc, comparator > anchor_key for asc
KeysetFilter(order, c, id, anchor_c, anchor_id) ==
    IF order = "desc"
    THEN TupleLess(c, id, anchor_c, anchor_id)
    ELSE TupleLess(anchor_c, anchor_id, c, id)

\* ORDER BY created_at <order>, id ASC: does row (c1, id1) come before row (c2, id2)
SortsBefore(order, c1, id1, c2, id2) ==
    IF order = "desc"
    THEN c1 > c2 \/ (c1 = c2 /\ id1 < id2)
    ELSE c1 < c2 \/ (c1 = c2 /\ id1 < id2)

\* query.order_by(*sort_columns).all() over the rows `ids` of table `tbl`
RECURSIVE OrderBy(_, _, _)
OrderBy(tbl, ids, order) ==
    IF ids = {} THEN <<>>
    ELSE LET first == CHOOSE k \in ids :
                          \A j \in ids \ {k} :
                              SortsBefore(order, tbl[k].created_at, k, tbl[j].created_at, j)
         IN <<[id |-> first, created_at |-> tbl[first].created_at]>>
            \o OrderBy(tbl, ids \ {first}, order)

\* .limit(limit + 1).all(), has_more, rows[:limit], next_after
KeysetPage(tbl, query, after, limit, order) ==
    LET filtered == IF after = NoCursor THEN query
                    ELSE {k \in query : KeysetFilter(order, tbl[k].created_at, k,
                                                     tbl[after].created_at, after)}
        ordered == OrderBy(tbl, filtered, order)
        rows == Slice(ordered, 0, limit + 1)
        has_more == Len(rows) > limit
        kept == Slice(rows, 0, limit)
        next_after == IF has_more /\ kept # <<>> THEN kept[Len(kept)].id ELSE NoCursor
    IN Page(kept, has_more, next_after)

PostgresStore_load_thread(tth, thread_id) ==
    IF thread_id \notin DOMAIN tth THEN "NotFoundError" ELSE "ok"

PostgresStore_save_thread(tth, tit, thread) ==
    [threads |-> FnPut(tth, thread.id, [created_at |-> thread.created_at]),
     items |-> tit,
     err |-> "ok"]

\* the page holds the deserialized row.data of each row
PostgresStore_load_thread_items(tit, thread_id, after, limit, order) ==
    LET query == {k \in DOMAIN tit : tit[k].thread_id = thread_id}
    IN IF after # NoCursor /\ after \notin DOMAIN tit
       THEN Raise("NotFoundError")
       ELSE LET page == KeysetPage(tit, query, after, limit, order)
            IN Page([k \in 1..Len(page.data) |->
                        [id |-> page.data[k].id, created_at |-> tit[page.data[k].id].data]],
                    page.has_more, page.after)

PostgresStore_load_threads(tth, limit, after, order) ==
    IF after # NoCursor /\ after \notin DOMAIN tth
    THEN Raise("NotFoundError")
    ELSE KeysetPage(tth, DOMAIN tth, after, limit, order)

\* session.add of a row whose primary key is taken fails at commit
PostgresStore_add_thread_item(tth, tit, thread_id, item) ==
    IF thread_id \notin DOMAIN tth
    THEN [threads |-> tth, items |-> tit, err |-> "NotFoundError"]
    ELSE IF item.id \in DOMAIN tit
    THEN [threads |-> tth, items |-> tit, err |-> "IntegrityError"]
    ELSE [threads |-> tth,
          items |-> FnPut(tit, item.id, [thread_id |-> thread_id,
                                         created_at |-> item.created_at,
                                         data |-> item.created_at]),
          err |-> "ok"]

\* row.data and row.thread_id are written, row.created_at is not; the commit
\* fails on the foreign key when thread_id names no thread
PostgresStore_save_item(tth, tit, thread_id, item) ==
    IF item.id \notin DOMAIN tit
    THEN [threads |-> tth, items |-> tit, err |-> "NotFoundError"]
    ELSE IF thread_id \notin DOMAIN tth
    THEN [threads |-> tth, items |-> tit, err |-> "IntegrityError"]
    ELSE [threads |-> tth,
          items |-> FnPut(tit, item.id, [thread_id |-> thread_id,
                                         created_at |-> tit[item.id].created_at,
                                         data |-> item.created_at]),
          err |-> "ok"]

PostgresStore_load_item(tit, thread_id, item_id) ==
    IF item_id \notin DOMAIN tit \/ tit[item_id].thread_id # thread_id
    THEN "NotFoundError"
    ELSE "ok"

\* as delete_thread, but the thread's items stay behind
PostgresStore_delete_thread_NoCascade(tth, tit, thread_id) ==
    IF thread_id \in DOMAIN tth
    THEN [threads |-> FnDrop(tth, thread_id), items |-> tit, err |-> "ok"]
    ELSE [threads |-> tth, items |-> tit, err |-> "ok"]

\* session.delete(row); the items go with the thread (ondelete="CASCADE")
PostgresStore_delete_thread(tth, tit, thread_id) ==
    IF thread_id \in DOMAIN tth
    THEN [threads |-> FnDrop(tth, thread_id),
          items |-> [k \in {j \in DOMAIN tit : tit[j].thread_id # thread_id} |-> tit[k]],
          err |-> "ok"]
    ELSE [threads |-> tth, items |-> tit, err |-> "ok"]

PostgresStore_delete_thread_item(tth, tit, thread_id, item_id) ==
    IF item_id \in DOMAIN tit /\ tit[item_id].thread_id = thread_id
    THEN [threads |-> tth, items |-> FnDrop(tit, item_id), err |-> "ok"]
    ELSE [threads |-> tth, items |-> tit, err |-> "ok"]

(***************************************************************************)
(* tools/peoplesoft/entities.py: the entity configuration.  A dict is the  *)
(* sequence of its entries in insertion order, the key in the field id.    *)
(* A field_map value is a string (a column of the base table) or a dict    *)
(* with an "expression", whose text is cut at the {alias} replacement      *)
(* field.                                                                  *)
(***************************************************************************)
Column(column) ==
    [kind |-> "str", column |-> column, expression |-> <<>>, join_expression |-> ""]
Expression(expression) ==
    [kind |-> "dict", column |-> "", expression |-> expression, join_expression |-> ""]
JoinExpression(join_expr) ==
    [kind |-> "dict", column |-> "", expression |-> <<>>, join_expression |-> join_expr]

GL_SUMMARY ==
    [table |-> "PS_LEDGER",
     alias |-> "gl",
     field_map |-> <<
        [id |-> "business_unit", mapping |-> Column("BUSINESS_UNIT")],
        [id |-> "ledger", mapping |-> Column("LEDGER")],
        [id |-> "fiscal_year", mapping |-> Column("FISCAL_YEAR")],
        [id |-> "period", mapping |-> Column("ACCOUNTING_PERIOD")],
        [id |-> "object", mapping |-> Column("ACCOUNT")],
        [id |-> "department", mapping |-> Column("DEPTID")],
        [id |-> "fund", mapping |-> Column("FUND_CODE")],
        [id |-> "resource", mapping |-> Column("PROGRAM_CODE")],
        [id |-> "class", mapping |-> Column("CLASS_FLD")],
        [id |-> "project", mapping |-> Column("PROJECT_ID")],
        [id |-> "amount", mapping |-> Column("POSTED_TOTAL_AMT")],
        [id |-> "amount_sum",
         mapping |-> Expression(<<"SUM(", "{alias}", ".POSTED_TOTAL_AMT)">>)] >>,
     joins |-> <<
        [name |-> "account", type |-> "LEFT", table |-> "PS_GL_ACCOUNT_TBL", alias |-> "acct",
         on |-> << "acct.SETID = 'SHARE'",
                   "acct.ACCOUNT = gl.ACCOUNT",
                   "acct.EFF_STATUS = 'A'",
                   "acct.EFFDT = (SELECT MAX(A_ED.EFFDT) FROM PS_GL_ACCOUNT_TBL A_ED "
                   \o "WHERE A_ED.SETID = acct.SETID "
                   \o "AND A_ED.ACCOUNT = acct.ACCOUNT "
                   \o "AND A_ED.EFFDT <= CAST(GETDATE() AS DATE))" >>,
         fields |-> << [id |-> "account_descr", expr |-> "acct.DESCR"] >>],
        [name |-> "department", type |-> "LEFT", table |-> "PS_DEPT_TBL", alias |-> "dpt",
         on |-> << "dpt.SETID = 'SHARE'",
                   "dpt.DEPTID = gl.DEPTID",
                   "dpt.EFF_STATUS = 'A'",
                   "dpt.EFFDT = (SELECT MAX(A_ED.EFFDT) FROM PS_DEPT_TBL A_ED "
                   \o "WHERE A_ED.SETID = dpt.SETID "
                   \o "AND A_ED.DEPTID = dpt.DEPTID "
                   \o "AND A_ED.EFFDT <= CAST(GETDATE() AS DATE))" >>,
         fields |-> << [id |-> "dept_descr", expr |-> "dpt.DESCR"] >>],
        [name |-> "fund", type |-> "LEFT", table |-> "PS_FUND_TBL", alias |-> "fnd",
         on |-> << "fnd.SETID = 'SHARE'",
                   "fnd.FUND_CODE = gl.FUND_CODE",
                   "fnd.EFF_STATUS = 'A'",
                   "fnd.EFFDT = (SELECT MAX(A_ED.EFFDT) FROM PS_FUND_TBL A_ED "
                   \o "WHERE A_ED.SETID = fnd.SETID "
                   \o "AND A_ED.FUND_CODE = fnd.FUND_CODE "
                   \o "AND A_ED.EFFDT <= CAST(GETDATE() AS DATE))" >>,
         fields |-> << [id |-> "fund_descr", expr |-> "fnd.DESCR"] >>],
        [name |-> "program", type |-> "LEFT", table |-> "PS_PROGRAM_TBL", alias |-> "prg",
         on |-> << "prg.SETID = 'SHARE'",
                   "prg.PROGRAM_CODE = gl.PROGRAM_CODE",
                   "prg.EFF_STATUS = 'A'",
                   "prg.EFFDT = (SELECT MAX(A_ED.EFFDT) FROM PS_PROGRAM_TBL A_ED "
                   \o "WHERE A_ED.SETID = prg.SETID "
                   \o "AND A_ED.PROGRAM_CODE = prg.PROGRAM_CODE "
                   \o "AND A_ED.EFFDT <= CAST(GETDATE() AS DATE))" >>,
         fields |-> << [id |-> "resource_descr", expr |-> "prg.DESCR"] >>],
        [name |-> "operating_unit", type |-> "LEFT", table |-> "PS_OPER_UNIT_TBL",
         alias |-> "ou",
         on |-> << "ou.SETID = 'SHARE'",
                   "ou.OPERATING_UNIT = gl.OPERATING_UNIT",
                   "ou.EFF_STATUS = 'A'",
                   "ou.EFFDT = (SELECT MAX(A_ED.EFFDT) FROM PS_OPER_UNIT_TBL A_ED "
                   \o "WHERE A_ED.SETID = ou.SETID "
                   \o "AND A_ED.OPERATING_UNIT = ou.OPERATING_UNIT "
                   \o "AND A_ED.EFFDT <= CAST(GETDATE() AS DATE))" >>,
         fields |-> << [id |-> "site_descr", expr |-> "ou.DESCR"] >>],
        [name |-> "class", type |-> "LEFT", table |-> "PS_CLASS_CF_TBL", alias |-> "cls",
         on |-> << "cls.SETID = 'SHARE'",
                   "cls.CLASS_FLD = gl.CLASS_FLD",
                   "cls.EFF_STATUS = 'A'",
                   "cls.EFFDT = (SELECT MAX(A_ED.EFFDT) FROM PS_CLASS_CF_TBL A_ED "
                   \o "WHERE A_ED.SETID = cls.SETID "
                   \o "AND A_ED.CLASS_FLD = cls.CLASS_FLD "
                   \o "AND A_ED.EFFDT <= CAST(GETDATE() AS DATE))" >>,
         fields |-> << [id |-> "class_descr", expr |-> "cls.DESCR"] >>],
        [name |-> "project", type |-> "LEFT", table |-> "PS_PROJECT", alias |-> "prj",
         on |-> << "prj.BUSINESS_UNIT = gl.BUSINESS_UNIT",
                   "prj.PROJECT_ID = gl.PROJECT_ID" >>,
         fields |-> << [id |-> "project_descr", expr |-> "prj.DESCR"] >>] >>,
     default_filters |-> <<
        [sql |-> <<"gl.ACCOUNTING_PERIOD NOT IN ('999')">>, params |-> <<>>] >>]

\* entities.ENTITIES as the module is imported
entities_ENTITIES == << [id |-> "gl_summary", cfg |-> GL_SUMMARY] >>

\* build_sql has not been called
NoRequest ==
    [entity |-> "", select |-> <<>>, filters |-> <<>>, limit |-> [given |-> FALSE, n |-> 0],
     order_by |-> <<>>, group_by |-> <<>>]
NoResult ==
    [err |-> "none", message |-> "", sql |-> <<>>, params |-> <<>>, where_clauses |-> <<>>,
     eff_limit |-> 0]

\* run_query and query_ps_finance have not been called
NoQuery ==
    [called |-> FALSE, sql |-> <<>>, params |-> <<>>, new_sql |-> <<>>, bind_params |-> <<>>,
     raised |-> FALSE, rows |-> <<>>]
NoToolCall ==
    [called |-> FALSE, request |-> NoRequest, raised |-> FALSE, error |-> "",
     entity |-> "", row_count |-> 0, rows |-> <<>>, compiled |-> FALSE, ran_query |-> FALSE]

\* the query compiler as imported
NoCompilation ==
    /\ ENTITIES = entities_ENTITIES
    /\ sql_request = NoRequest
    /\ sql_result = NoResult
    /\ sql_previous = NoResult
    /\ sql_calls = 0
    /\ db_query = NoQuery
    /\ tool_call = NoToolCall

(***************************************************************************)
(* The two stores, empty after construction, receive the same calls.       *)
(***************************************************************************)
EmptyFn == [k \in {} |-> 0]

NoListing ==
    [phase |-> "idle", backend |-> "none", thread_id |-> 0, limit |-> 0, order |-> "asc",
     after |-> NoCursor, seen |-> [i \in ItemIds |-> 0], stable |-> {}]

\* the journal before the first call, and the journal that is not kept
NoCall ==
    [op |-> "init", thread_id |-> 0, item_id |-> 0, had_items |-> FALSE,
     mem |-> "ok", pg |-> "ok"]
Unrecorded == [NoCall EXCEPT !.op = "unrecorded"]

\* no in-memory operation is running
NoTask == [call |-> [op |-> "none"], program |-> <<>>, pc |-> 0]

\* no attachment call yet
NoAttachmentCall ==
    [op |-> "init", id |-> 0, payload |-> "", mem |-> "ok", pg |-> "ok"]

\* the attachment stores as constructed
NoAttachments ==
    /\ attachments = EmptyFn
    /\ files = EmptyFn
    /\ chatkit_attachments = EmptyFn
    /\ stored = {}
    /\ attachment_last = NoAttachmentCall
    /\ task = NoTask
    /\ lock = FALSE
    /\ files_lock = FALSE

\* the callers that may be inside a PostgresStore operation at the same time
Callers == {"a", "b"}

\* what session.get returned: nothing yet
NoRow == [found |-> FALSE, thread_id |-> 0, data |-> 0]

\* a caller that is in no operation and holds no session
NoSession ==
    [pc |-> "idle", op |-> "none", thread_id |-> 0, item_id |-> 0, created_at |-> 0,
     row |-> NoRow, open |-> 0, err |-> "ok"]

\* both stores as constructed
InitStores ==
    /\ threads = <<>>
    /\ items = EmptyFn
    /\ chatkit_threads = EmptyFn
    /\ chatkit_thread_items = EmptyFn
    /\ listing = NoListing
    /\ sessions = [w \in Callers |-> NoSession]
    /\ NoAttachments
    /\ NoCompilation

Init ==
    /\ InitStores
    /\ calls_left = MaxOps
    /\ last = NoCall

\* the rows of thread t a store holds, as a function id -> ordering key's created_at
MemKeys(its, t) ==
    LET d == ItemsGet(its, t) IN [i \in Keys(d) |-> d[IndexOf(d, i)].created_at]
PgKeys(tit, t) ==
    [i \in {k \in DOMAIN tit : tit[k].thread_id = t} |-> tit[i].created_at]
StoreKeys(backend, its, tit, t) ==
    IF backend = "mem" THEN MemKeys(its, t) ELSE PgKeys(tit, t)

\* the rows the listing has seen present, with one ordering key, since it began
StillStable(m, p) ==
    LET before == StoreKeys(listing.backend, items, chatkit_thread_items, listing.thread_id)
        after == StoreKeys(listing.backend, m.items, p.items, listing.thread_id)
    IN {i \in listing.stable :
            i \in DOMAIN before /\ i \in DOMAIN after /\ before[i] = after[i]}

\* one call, made on both stores
Apply(op, thread_id, item_id, m, p) ==
    /\ calls_left > 0
    /\ calls_left' = calls_left - 1
    /\ threads' = m.threads
    /\ items' = m.items
    /\ chatkit_threads' = p.threads
    /\ chatkit_thread_items' = p.items
    /\ last' = IF last = Unrecorded THEN last
               ELSE [op |-> op, thread_id |-> thread_id, item_id |-> item_id,
                     had_items |-> /\ ItemsGet(items, thread_id) # <<>>
                                   /\ DOMAIN PgKeys(chatkit_thread_items, thread_id) # {},
                     mem |-> m.err, pg |-> p.err]
    /\ listing' = [listing EXCEPT !.stable = StillStable(m, p)]
    /\ UNCHANGED besideStores

SaveThread(t, c) ==
    LET thread == [id |-> t, created_at |-> c]
    IN Apply("save_thread", t, 0,
             InMemoryStore_save_thread(threads, items, thread),
             PostgresStore_save_thread(chatkit_threads, chatkit_thread_items, thread))

AddThreadItem(t, i, c) ==
    LET item == [id |-> i, created_at |-> c]
    IN Apply("add_thread_item", t, i,
             InMemoryStore_add_thread_item(threads, items, t, item),
             PostgresStore_add_thread_item(chatkit_threads, chatkit_thread_items, t, item))

SaveItem(t, i, c) ==
    LET item == [id |-> i, created_at |-> c]
    IN Apply("save_item", t, i,
             InMemoryStore_save_item(threads, items, t, item),
             PostgresStore_save_item(chatkit_threads, chatkit_thread_items, t, item))

DeleteThread(t) ==
    Apply("delete_thread", t, 0,
          InMemoryStore_delete_thread(threads, items, t),
          PostgresStore_delete_thread(chatkit_threads, chatkit_thread_items, t))

DeleteThreadItem(t, i) ==
    Apply("delete_thread_item", t, i,
          InMemoryStore_delete_thread_item(threads, items, t, i),
          PostgresStore_delete_thread_item(chatkit_threads, chatkit_thread_items, t, i))

Ids(rows) == [k \in 1..Len(rows) |-> rows[k].id]

\* the calls of one paginated read, by backend
LoadThreadItems(backend, t, after, limit, order) ==
    IF backend = "mem"
    THEN InMemoryStore_load_thread_items(items, t, after, limit, order)
    ELSE PostgresStore_load_thread_items(chatkit_thread_items, t, after, limit, order)

LoadThreads(backend, limit, after, order) ==
    IF backend = "mem"
    THEN InMemoryStore_load_threads(threads, limit, after, order)
    ELSE PostgresStore_load_threads(chatkit_threads, limit, after, order)

Backends == {"mem", "pg"}

StoreCall ==
    \/ \E t \in ThreadIds, c \in Times : SaveThread(t, c)
    \/ \E t \in ThreadIds, i \in ItemIds, c \in Times : AddThreadItem(t, i, c)
    \/ \E t \in ThreadIds, i \in ItemIds, c \in Times : SaveItem(t, i, c)
    \/ \E t \in ThreadIds : DeleteThread(t)
    \/ \E t \in ThreadIds, i \in ItemIds : DeleteThreadItem(t, i)

Next == StoreCall

\* the calls with the journal kept
Spec == Init /\ [][Next]_vars

\* the calls alone, for what is said of the reads of the stores they lead to
InitReads ==
    /\ InitStores
    /\ calls_left = MaxOps
    /\ last = Unrecorded

SpecReads == InitReads /\ [][Next]_vars

(***************************************************************************)
(* A client reads one thread's items page by page from one store, each     *)
(* call a load_thread_items with the cursor of the page before, while the  *)
(* stores go on receiving calls between its pages.                         *)
(***************************************************************************)
\* what one page does to the listing: the rows counted, the cursor kept
Deliver(l, page) ==
    IF page.err # "ok"
    THEN [l EXCEPT !.phase = "failed"]
    ELSE [l EXCEPT
            !.seen = [i \in ItemIds |->
                        IF i \in {page.data[k].id : k \in 1..Len(page.data)} /\ @[i] < 2
                        THEN @[i] + 1 ELSE @[i]],
            !.after = page.after,
            !.phase = IF page.has_more THEN "paging" ELSE "done"]

\* the first call, with after=None
StartListing(b, t, limit, order) ==
    /\ listing.phase = "idle"
    /\ listing' = Deliver([NoListing EXCEPT
                              !.backend = b, !.thread_id = t, !.limit = limit,
                              !.order = order,
                              !.stable = DOMAIN StoreKeys(b, items, chatkit_thread_items, t)],
                          LoadThreadItems(b, t, NoCursor, limit, order))
    /\ UNCHANGED <<threads, items, chatkit_threads, chatkit_thread_items, last, calls_left>>
    /\ UNCHANGED besideStores

\* the next call, with the cursor the page before returned
NextPage ==
    /\ listing.phase = "paging"
    /\ listing' = Deliver(listing,
                          LoadThreadItems(listing.backend, listing.thread_id,
                                          listing.after, listing.limit, listing.order))
    /\ UNCHANGED <<threads, items, chatkit_threads, chatkit_thread_items, last, calls_left>>
    /\ UNCHANGED besideStores

NextListing ==
    \/ StoreCall
    \/ \E b \in Backends, t \in ThreadIds, limit \in 1..MaxLimit, order \in Orders :
          StartListing(b, t, limit, order)
    \/ NextPage

\* one more call than the calls that build the thread: the one between two pages
InitListing ==
    /\ InitStores
    /\ calls_left = MaxOps + 1
    /\ last = Unrecorded

SpecListing == InitListing /\ [][NextListing]_vars

(***************************************************************************)
(* PostgresStore under concurrency.  _run hands _run_sync to a thread, so   *)
(* the operations of several callers interleave: each opens a session      *)
(* (with self._Session() as session), looks a row up with session.get,     *)
(* writes and commits, and leaves the with block, which closes the         *)
(* session, on return and on raise alike.  The database checks the primary *)
(* keys and the foreign key when the write is flushed and committed.       *)
(***************************************************************************)
\* the row session.get returns to the operation of session s
SessionGet(s, tth, tit) ==
    IF s.op \in {"save_thread", "add_thread_item", "delete_thread"}
    THEN [found |-> s.thread_id \in DOMAIN tth, thread_id |-> 0, data |-> 0]
    ELSE IF s.item_id \in DOMAIN tit
    THEN [found |-> TRUE, thread_id |-> tit[s.item_id].thread_id, data |-> tit[s.item_id].data]
    ELSE NoRow

\* what the operation does with the row: raise, return, or go on to write and commit
AfterGet(s, row) ==
    IF s.op \in {"add_thread_item", "save_item"} /\ ~row.found
    THEN [s EXCEPT !.pc = "exit", !.row = row, !.err = "NotFoundError"]
    ELSE IF s.op = "delete_thread" /\ ~row.found
    THEN [s EXCEPT !.pc = "exit", !.row = row]
    ELSE IF s.op = "delete_thread_item" /\ ~(row.found /\ row.thread_id = s.thread_id)
    THEN [s EXCEPT !.pc = "exit", !.row = row]
    ELSE [s EXCEPT !.pc = "commit", !.row = row]

\* as ForeignKeyHolds, in a database without the constraint
ForeignKeyHolds_Unchecked(tth, thread_id) == TRUE

\* chatkit_thread_items.thread_id REFERENCES chatkit_threads.id
ForeignKeyHolds(tth, thread_id) == thread_id \in DOMAIN tth

\* session.commit() of session s on the tables as they are now.  An INSERT fails on
\* a taken primary key or a missing parent (IntegrityError); an UPDATE of a row that
\* is gone matches no row (StaleDataError) and sets only the columns that were
\* assigned a value other than the one read; a DELETE of a row that is gone is not
\* an error.
SessionCommit(s, tth, tit) ==
    LET unchanged(err) == [threads |-> tth, items |-> tit, err |-> err]
    IN CASE s.op = "save_thread" ->
              IF s.row.found
              THEN IF s.thread_id \notin DOMAIN tth THEN unchanged("StaleDataError")
                   ELSE [threads |-> FnPut(tth, s.thread_id, [created_at |-> s.created_at]),
                         items |-> tit, err |-> "ok"]
              ELSE IF s.thread_id \in DOMAIN tth THEN unchanged("IntegrityError")
                   ELSE [threads |-> FnPut(tth, s.thread_id, [created_at |-> s.created_at]),
                         items |-> tit, err |-> "ok"]
         [] s.op = "add_thread_item" ->
              IF s.item_id \in DOMAIN tit THEN unchanged("IntegrityError")
              ELSE IF ~ForeignKeyHolds(tth, s.thread_id) THEN unchanged("IntegrityError")
              ELSE [threads |-> tth,
                    items |-> FnPut(tit, s.item_id, [thread_id |-> s.thread_id,
                                                     created_at |-> s.created_at,
                                                     data |-> s.created_at]),
                    err |-> "ok"]
         [] s.op = "save_item" ->
              IF s.row.thread_id = s.thread_id /\ s.row.data = s.created_at
              THEN unchanged("ok")
              ELSE IF s.item_id \notin DOMAIN tit THEN unchanged("StaleDataError")
              ELSE LET now == tit[s.item_id]
                       thread_id == IF s.row.thread_id # s.thread_id
                                    THEN s.thread_id ELSE now.thread_id
                       data == IF s.row.data # s.created_at THEN s.created_at ELSE now.data
                   IN IF ~ForeignKeyHolds(tth, thread_id) THEN unchanged("IntegrityError")
                      ELSE [threads |-> tth,
                            items |-> FnPut(tit, s.item_id, [thread_id |-> thread_id,
                                                             created_at |-> now.created_at,
                                                             data |-> data]),
                            err |-> "ok"]
         [] s.op = "delete_thread" ->
              PostgresStore_delete_thread(tth, tit, s.thread_id)
         [] OTHER ->
              IF s.item_id \in DOMAIN tit
              THEN [threads |-> tth, items |-> FnDrop(tit, s.item_id), err |-> "ok"]
              ELSE unchanged("ok")

\* as SessionExit, but the session is closed only when the operation returned
SessionExit_OpenAfterRaise(s) ==
    [s EXCEPT !.pc = "done", !.open = IF s.err = "ok" THEN s.open - 1 ELSE s.open]

\* leaving "with self._Session() as session": the session is closed, the result or
\* the exception goes to the caller
SessionExit(s) ==
    [s EXCEPT !.pc = "done", !.open = s.open - 1]

PostgresOps ==
    {"save_thread", "add_thread_item", "save_item", "delete_thread", "delete_thread_item"}

\* the same call on the InMemoryStore, which runs it at once under its lock
InMemoryStore_call(op, t, i, c) ==
    CASE op = "save_thread" ->
            InMemoryStore_save_thread(threads, items, [id |-> t, created_at |-> c])
      [] op = "add_thread_item" ->
            InMemoryStore_add_thread_item(threads, items, t, [id |-> i, created_at |-> c])
      [] op = "save_item" ->
            InMemoryStore_save_item(threads, items, t, [id |-> i, created_at |-> c])
      [] op = "delete_thread" ->
            InMemoryStore_delete_thread(threads, items, t)
      [] OTHER ->
            InMemoryStore_delete_thread_item(threads, items, t, i)

\* caller w makes its call: _run_sync opens the session
RunSync(w, op, t, i, c) ==
    /\ sessions[w].pc = "idle"
    /\ threads' = InMemoryStore_call(op, t, i, c).threads
    /\ items' = InMemoryStore_call(op, t, i, c).items
    /\ sessions' = [sessions EXCEPT ![w] =
                       [pc |-> "session", op |-> op, thread_id |-> t,
                        item_id |-> IF op \in {"save_thread", "delete_thread"} THEN 0 ELSE i,
                        created_at |-> IF op \in {"delete_thread", "delete_thread_item"}
                                       THEN 0 ELSE c,
                        row |-> NoRow, open |-> sessions[w].open + 1, err |-> "ok"]]
    /\ UNCHANGED <<chatkit_threads, chatkit_thread_items, last, calls_left, listing>>
    /\ UNCHANGED besideSessions

\* the session.get of the operation
Get(w) ==
    /\ sessions[w].pc = "session"
    /\ sessions' = [sessions EXCEPT ![w] =
                       AfterGet(@, SessionGet(@, chatkit_threads, chatkit_thread_items))]
    /\ UNCHANGED <<threads, items, chatkit_threads, chatkit_thread_items, last, calls_left,
                   listing>>
    /\ UNCHANGED besideSessions

\* the write and session.commit() of the operation
Commit(w) ==
    /\ sessions[w].pc = "commit"
    /\ LET done == SessionCommit(sessions[w], chatkit_threads, chatkit_thread_items)
       IN /\ chatkit_threads' = done.threads
          /\ chatkit_thread_items' = done.items
          /\ sessions' = [sessions EXCEPT ![w] = [@ EXCEPT !.pc = "exit", !.err = done.err]]
    /\ UNCHANGED <<threads, items, last, calls_left, listing>>
    /\ UNCHANGED besideSessions

\* the with block is left
Exit(w) ==
    /\ sessions[w].pc = "exit"
    /\ sessions' = [sessions EXCEPT ![w] = SessionExit(@)]
    /\ UNCHANGED <<threads, items, chatkit_threads, chatkit_thread_items, last, calls_left,
                   listing>>
    /\ UNCHANGED besideSessions

NextSessions ==
    \/ \E w \in Callers, op \in PostgresOps, t \in ThreadIds, i \in ItemIds, c \in Times :
          RunSync(w, op, t, i, c)
    \/ \E w \in Callers : Get(w)
    \/ \E w \in Callers : Commit(w)
    \/ \E w \in Callers : Exit(w)

\* both stores after save_thread of thread 1, alone or followed by add_thread_item
\* of item 1, and no call in progress
InitSessions ==
    LET thread == [id |-> 1, created_at |-> 1]
        item == [id |-> 1, created_at |-> 1]
        m1 == InMemoryStore_save_thread(<<>>, EmptyFn, thread)
        p1 == PostgresStore_save_thread(EmptyFn, EmptyFn, thread)
        m2 == InMemoryStore_add_thread_item(m1.threads, m1.items, 1, item)
        p2 == PostgresStore_add_thread_item(p1.threads, p1.items, 1, item)
    IN /\ \E held \in BOOLEAN :
             /\ threads = m1.threads
             /\ items = IF held THEN m2.items ELSE m1.items
             /\ chatkit_threads = p1.threads
             /\ chatkit_thread_items = IF held THEN p2.items ELSE p1.items
       /\ listing = NoListing
       /\ sessions = [w \in Callers |-> NoSession]
       /\ NoAttachments
    /\ NoCompilation
       /\ calls_left = MaxOps
       /\ last = Unrecorded

\* each caller makes one call, on both stores; the PostgresStore calls interleave
SpecSessions == InitSessions /\ [][NextSessions]_vars

(***************************************************************************)
(* Attachments.  An attachment is [id, upload_url]; upload_url is "None" or *)
(* the upload address, which create_attachment builds from the base url    *)
(* and the id and which is never empty.  A payload is b"" or some bytes;    *)
(* NULL is the empty file_bytes column.  generate_attachment_id is the     *)
(* library's and returns an id no collection of the stores holds.          *)
(***************************************************************************)
UploadUrls == {"None", "url"}
Payloads == {"", "x"}
NULL == "NULL"

InMemoryStore_save_attachment(atts, fls, attachment) ==
    [attachments |-> FnPut(atts, attachment.id, [upload_url |-> attachment.upload_url]),
     files |-> fls, err |-> "ok"]

InMemoryStore_load_attachment(atts, attachment_id) ==
    IF attachment_id \notin DOMAIN atts
    THEN [err |-> "NotFoundError", upload_url |-> "None"]
    ELSE [err |-> "ok", upload_url |-> atts[attachment_id].upload_url]

InMemoryStore_delete_attachment(atts, fls, attachment_id) ==
    [attachments |-> FnDrop(atts, attachment_id), files |-> fls, err |-> "ok"]

InMemoryStore_mark_attachment_uploaded(atts, fls, attachment_id) ==
    IF attachment_id \notin DOMAIN atts
    THEN [attachments |-> atts, files |-> fls, err |-> "NotFoundError"]
    ELSE [attachments |-> FnPut(atts, attachment_id, [upload_url |-> "None"]),
          files |-> fls, err |-> "ok"]

\* self._files[attachment_id] = b"", then save_attachment
InMemoryAttachmentStore_create_attachment(atts, fls, attachment_id) ==
    InMemoryStore_save_attachment(atts, FnPut(fls, attachment_id, ""),
                                  [id |-> attachment_id, upload_url |-> "url"])

InMemoryAttachmentStore_delete_attachment(atts, fls, attachment_id) ==
    [attachments |-> atts, files |-> FnDrop(fls, attachment_id), err |-> "ok"]

\* the payload is written before load_attachment looks for the metadata
InMemoryAttachmentStore_store_file_bytes(atts, fls, attachment_id, payload) ==
    IF attachment_id \notin DOMAIN fls
    THEN [attachments |-> atts, files |-> fls, err |-> "NotFoundError"]
    ELSE [attachments |-> atts, files |-> FnPut(fls, attachment_id, payload),
          err |-> InMemoryStore_load_attachment(atts, attachment_id).err]

InMemoryAttachmentStore_get_file_bytes(atts, fls, attachment_id) ==
    IF attachment_id \notin DOMAIN fls
    THEN [err |-> "NotFoundError", payload |-> NULL, upload_url |-> "None"]
    ELSE LET attachment == InMemoryStore_load_attachment(atts, attachment_id)
         IN IF attachment.err # "ok"
            THEN [err |-> attachment.err, payload |-> NULL, upload_url |-> "None"]
            ELSE [err |-> "ok", payload |-> fls[attachment_id],
                  upload_url |-> attachment.upload_url]

\* a new row has no file_bytes; an existing row keeps them
PostgresStore_save_attachment(rows, attachment) ==
    [rows |-> FnPut(rows, attachment.id,
                    [data |-> attachment.upload_url,
                     upload_url |-> attachment.upload_url,
                     file_bytes |-> IF attachment.id \in DOMAIN rows
                                    THEN rows[attachment.id].file_bytes ELSE NULL]),
     err |-> "ok"]

\* the attachment is deserialized from row.data
PostgresStore_load_attachment(rows, attachment_id) ==
    IF attachment_id \notin DOMAIN rows
    THEN [err |-> "NotFoundError", upload_url |-> "None"]
    ELSE [err |-> "ok", upload_url |-> rows[attachment_id].data]

PostgresStore_delete_attachment(rows, attachment_id) ==
    [rows |-> FnDrop(rows, attachment_id), err |-> "ok"]

\* as mark_attachment_uploaded, but only the upload_url column is cleared
PostgresStore_mark_attachment_uploaded_ColumnOnly(rows, attachment_id) ==
    IF attachment_id \notin DOMAIN rows
    THEN [rows |-> rows, err |-> "NotFoundError"]
    ELSE [rows |-> [rows EXCEPT ![attachment_id].upload_url = "None"], err |-> "ok"]

PostgresStore_mark_attachment_uploaded(rows, attachment_id) ==
    IF attachment_id \notin DOMAIN rows
    THEN [rows |-> rows, err |-> "NotFoundError"]
    ELSE [rows |-> [rows EXCEPT ![attachment_id].data = "None",
                                ![attachment_id].upload_url = "None"],
          err |-> "ok"]

PostgresAttachmentStore_create_attachment(rows, attachment_id) ==
    PostgresStore_save_attachment(rows, [id |-> attachment_id, upload_url |-> "url"])

PostgresAttachmentStore_delete_attachment(rows, attachment_id) ==
    IF attachment_id \in DOMAIN rows
    THEN [rows |-> [rows EXCEPT ![attachment_id].file_bytes = NULL], err |-> "ok"]
    ELSE [rows |-> rows, err |-> "ok"]

PostgresAttachmentStore_store_file_bytes(rows, attachment_id, payload) ==
    IF attachment_id \notin DOMAIN rows
    THEN [rows |-> rows, err |-> "NotFoundError"]
    ELSE [rows |-> [rows EXCEPT ![attachment_id].file_bytes = payload], err |-> "ok"]

PostgresAttachmentStore_get_file_bytes(rows, attachment_id) ==
    IF attachment_id \notin DOMAIN rows \/ rows[attachment_id].file_bytes = NULL
    THEN [err |-> "NotFoundError", payload |-> NULL, upload_url |-> "None"]
    ELSE [err |-> "ok", payload |-> rows[attachment_id].file_bytes,
          upload_url |-> rows[attachment_id].data]

\* one attachment call, made on both backends
AttachmentCall(op, attachment_id, payload, m, p, nowStored) ==
    /\ calls_left > 0
    /\ calls_left' = calls_left - 1
    /\ attachments' = m.attachments
    /\ files' = m.files
    /\ chatkit_attachments' = p.rows
    /\ stored' = nowStored
    /\ attachment_last' = [op |-> op, id |-> attachment_id, payload |-> payload,
                           mem |-> m.err, pg |-> p.err]
    /\ UNCHANGED <<threads, items, chatkit_threads, chatkit_thread_items, last, listing>>
    /\ UNCHANGED besideAttachments

CreateAttachment(attachment_id) ==
    /\ attachment_id \notin
          DOMAIN attachments \cup DOMAIN files \cup DOMAIN chatkit_attachments
    /\ AttachmentCall("create_attachment", attachment_id, "",
                      InMemoryAttachmentStore_create_attachment(attachments, files,
                                                                attachment_id),
                      PostgresAttachmentStore_create_attachment(chatkit_attachments,
                                                                attachment_id),
                      stored)

SaveAttachment(attachment_id, upload_url) ==
    LET attachment == [id |-> attachment_id, upload_url |-> upload_url]
    IN AttachmentCall("save_attachment", attachment_id, "",
                      InMemoryStore_save_attachment(attachments, files, attachment),
                      PostgresStore_save_attachment(chatkit_attachments, attachment),
                      stored)

\* delete_attachment of the data store
StoreDeleteAttachment(attachment_id) ==
    AttachmentCall("Store.delete_attachment", attachment_id, "",
                   InMemoryStore_delete_attachment(attachments, files, attachment_id),
                   PostgresStore_delete_attachment(chatkit_attachments, attachment_id),
                   stored)

\* delete_attachment of the attachment store
AttachmentStoreDeleteAttachment(attachment_id) ==
    AttachmentCall("AttachmentStore.delete_attachment", attachment_id, "",
                   InMemoryAttachmentStore_delete_attachment(attachments, files,
                                                             attachment_id),
                   PostgresAttachmentStore_delete_attachment(chatkit_attachments,
                                                             attachment_id),
                   stored \ {attachment_id})

StoreFileBytes(attachment_id, payload) ==
    AttachmentCall("store_file_bytes", attachment_id, payload,
                   InMemoryAttachmentStore_store_file_bytes(attachments, files,
                                                            attachment_id, payload),
                   PostgresAttachmentStore_store_file_bytes(chatkit_attachments,
                                                            attachment_id, payload),
                   stored \cup {attachment_id})

MarkAttachmentUploaded(attachment_id) ==
    AttachmentCall("mark_attachment_uploaded", attachment_id, "",
                   InMemoryStore_mark_attachment_uploaded(attachments, files, attachment_id),
                   PostgresStore_mark_attachment_uploaded(chatkit_attachments,
                                                          attachment_id),
                   stored)

\* POST /attachments/{attachment_id}/upload: store_file_bytes, then
\* mark_attachment_uploaded unless store_file_bytes raised NotFoundError (a 404)
upload_attachment(attachment_id, payload) ==
    LET m1 == InMemoryAttachmentStore_store_file_bytes(attachments, files,
                                                       attachment_id, payload)
        p1 == PostgresAttachmentStore_store_file_bytes(chatkit_attachments,
                                                       attachment_id, payload)
        m2 == InMemoryStore_mark_attachment_uploaded(m1.attachments, m1.files,
                                                     attachment_id)
        p2 == PostgresStore_mark_attachment_uploaded(p1.rows, attachment_id)
    IN AttachmentCall("upload_attachment", attachment_id, payload,
                      IF m1.err = "ok" THEN m2 ELSE m1,
                      IF p1.err = "ok" THEN p2 ELSE p1,
                      stored \cup {attachment_id})

NextAttachments ==
    \/ \E a \in AttachmentIds : CreateAttachment(a)
    \/ \E a \in AttachmentIds, u \in UploadUrls : SaveAttachment(a, u)
    \/ \E a \in AttachmentIds : StoreDeleteAttachment(a)
    \/ \E a \in AttachmentIds : AttachmentStoreDeleteAttachment(a)
    \/ \E a \in AttachmentIds, payload \in Payloads : StoreFileBytes(a, payload)
    \/ \E a \in AttachmentIds : MarkAttachmentUploaded(a)
    \/ \E a \in AttachmentIds, payload \in Payloads : upload_attachment(a, payload)

\* the attachment calls, on both backends
SpecAttachments == InitReads /\ [][NextAttachments]_vars

(***************************************************************************)
(* The in-memory backend statement by statement.  Its operations are       *)
(* coroutines on one event loop: an operation runs until it awaits         *)
(* something that suspends it, and no await of these operations does       *)
(* (asyncio.Lock is acquired at once when it is free, and no operation     *)
(* awaits while it holds a lock), so one operation runs at a time.  The    *)
(* program of a call is the sequence of its statements that take or give   *)
(* back a lock or touch a stored collection: [line, do, on], with the      *)
(* source line, do in acquire, release, read, write, and on the lock or    *)
(* the collection.  The stores change when the operation returns or        *)
(* raises, by what the operation did.                                      *)
(***************************************************************************)
StoreLock == "InMemoryStore._lock"
FilesLock == "InMemoryAttachmentStore._lock"

Acquire(line, l) == [line |-> line, do |-> "acquire", on |-> l]
Release(line, l) == [line |-> line, do |-> "release", on |-> l]
Read(line, collection) == [line |-> line, do |-> "read", on |-> collection]
Write(line, collection) == [line |-> line, do |-> "write", on |-> collection]

\* the lock of the store that owns a collection
LockOf(collection) == IF collection = "_files" THEN FilesLock ELSE StoreLock

\* a call of the in-memory backend
Call(op, t, i, c, a, payload, u) ==
    [op |-> op, thread_id |-> t, item_id |-> i, created_at |-> c, attachment_id |-> a,
     payload |-> payload, upload_url |-> u]

\* InMemoryStore.load_attachment, also as called by the attachment store
load_attachment_program ==
    <<Acquire(101, StoreLock), Read(102, "_attachments"), Release(105, StoreLock)>>

save_attachment_program ==
    <<Acquire(97, StoreLock), Write(98, "_attachments"), Release(98, StoreLock)>>

Program(call) ==
    LET t == call.thread_id
        i == call.item_id
        a == call.attachment_id
    IN CASE call.op = "load_thread" ->
              <<Acquire(54, StoreLock), Read(55, "_threads"), Release(58, StoreLock)>>
         [] call.op = "save_thread" ->
              <<Acquire(61, StoreLock), Write(62, "_threads"), Write(63, "_items"),
                Release(63, StoreLock)>>
         [] call.op = "load_thread_items" ->
              <<Acquire(73, StoreLock), Read(74, "_items"), Release(74, StoreLock)>>
         [] call.op = "load_threads" ->
              <<Acquire(118, StoreLock), Read(119, "_threads"), Release(119, StoreLock)>>
         [] call.op = "add_thread_item" ->
              <<Acquire(144, StoreLock), Read(145, "_threads")>>
              \o (IF t \notin Keys(threads) THEN <<Release(146, StoreLock)>>
                  ELSE <<Write(147, "_items"), Release(147, StoreLock)>>)
         [] call.op = "save_item" ->
              <<Acquire(152, StoreLock), Read(153, "_threads")>>
              \o (IF t \notin Keys(threads) THEN <<Release(154, StoreLock)>>
                  ELSE <<Read(155, "_items")>>
                       \o (IF i \notin Keys(ItemsGet(items, t))
                           THEN <<Release(156, StoreLock)>>
                           ELSE <<Write(157, "_items"), Release(157, StoreLock)>>))
         [] call.op = "load_item" ->
              <<Acquire(162, StoreLock), Read(163, "_threads")>>
              \o (IF t \notin Keys(threads) THEN <<Release(164, StoreLock)>>
                  ELSE <<Read(165, "_items"), Release(168, StoreLock)>>)
         [] call.op = "delete_thread" ->
              <<Acquire(171, StoreLock), Write(172, "_threads"), Write(173, "_items"),
                Release(173, StoreLock)>>
         [] call.op = "delete_thread_item" ->
              <<Acquire(178, StoreLock), Read(179, "_items"), Write(180, "_items"),
                Release(180, StoreLock)>>
         [] call.op = "save_attachment" -> save_attachment_program
         [] call.op = "load_attachment" -> load_attachment_program
         [] call.op = "Store.delete_attachment" ->
              <<Acquire(108, StoreLock), Write(109, "_attachments"), Release(109, StoreLock)>>
         [] call.op = "mark_attachment_uploaded" ->
              <<Acquire(187, StoreLock), Read(188, "_attachments")>>
              \o (IF a \notin DOMAIN attachments THEN <<Release(190, StoreLock)>>
                  ELSE <<Write(192, "_attachments"), Write(193, "_attachments"),
                         Release(193, StoreLock)>>)
         [] call.op = "create_attachment" ->
              <<Acquire(226, FilesLock), Write(227, "_files"), Release(227, FilesLock)>>
              \o save_attachment_program
         [] call.op = "AttachmentStore.delete_attachment" ->
              <<Acquire(232, FilesLock), Write(233, "_files"), Release(233, FilesLock)>>
         [] call.op = "store_file_bytes" ->
              <<Acquire(238, FilesLock), Read(239, "_files")>>
              \o (IF a \notin DOMAIN files THEN <<Release(240, FilesLock)>>
                  ELSE <<Write(241, "_files"), Release(241, FilesLock)>>
                       \o load_attachment_program)
         [] OTHER ->
              <<Acquire(247, FilesLock), Read(248, "_files")>>
              \o (IF a \notin DOMAIN files THEN <<Release(249, FilesLock)>>
                  ELSE <<Release(248, FilesLock), Read(250, "_files")>>
                       \o load_attachment_program)

\* what the call has done to the collections when it returns or raises
Effect(call) ==
    LET a == call.attachment_id
        same == [attachments |-> attachments, files |-> files]
        th == IF call.op \in PostgresOps
              THEN InMemoryStore_call(call.op, call.thread_id, call.item_id, call.created_at)
              ELSE [threads |-> threads, items |-> items]
        at == CASE call.op = "save_attachment" ->
                      InMemoryStore_save_attachment(attachments, files,
                          [id |-> a, upload_url |-> call.upload_url])
                [] call.op = "Store.delete_attachment" ->
                      InMemoryStore_delete_attachment(attachments, files, a)
                [] call.op = "mark_attachment_uploaded" ->
                      InMemoryStore_mark_attachment_uploaded(attachments, files, a)
                [] call.op = "create_attachment" ->
                      InMemoryAttachmentStore_create_attachment(attachments, files, a)
                [] call.op = "AttachmentStore.delete_attachment" ->
                      InMemoryAttachmentStore_delete_attachment(attachments, files, a)
                [] call.op = "store_file_bytes" ->
                      InMemoryAttachmentStore_store_file_bytes(attachments, files, a,
                                                               call.payload)
                [] OTHER -> same
    IN [threads |-> th.threads, items |-> th.items,
        attachments |-> at.attachments, files |-> at.files]

\* the calls a client of the in-memory backend can make
InMemoryCalls ==
    {Call("save_thread", t, 0, c, 0, "", "None") : t \in ThreadIds, c \in Times}
    \cup {Call(op, t, 0, 0, 0, "", "None") :
              op \in {"load_thread", "load_thread_items", "delete_thread"}, t \in ThreadIds}
    \cup {Call("load_threads", 0, 0, 0, 0, "", "None")}
    \cup {Call(op, t, i, c, 0, "", "None") :
              op \in {"add_thread_item", "save_item"},
              t \in ThreadIds, i \in ItemIds, c \in Times}
    \cup {Call(op, t, i, 0, 0, "", "None") :
              op \in {"load_item", "delete_thread_item"}, t \in ThreadIds, i \in ItemIds}
    \cup {Call("save_attachment", 0, 0, 0, a, "", u) : a \in AttachmentIds, u \in UploadUrls}
    \cup {Call(op, 0, 0, 0, a, "", "None") :
              op \in {"load_attachment", "Store.delete_attachment",
                      "mark_attachment_uploaded", "create_attachment",
                      "AttachmentStore.delete_attachment", "get_file_bytes"},
              a \in AttachmentIds}
    \cup {Call("store_file_bytes", 0, 0, 0, a, payload, "None") :
              a \in AttachmentIds, payload \in Payloads}

\* the statement the running operation is at, or none
AtStatement == task.pc \in 1..Len(task.program)
Statement == task.program[task.pc]
Held(l) == IF l = FilesLock THEN files_lock ELSE lock

UnchangedByTask ==
    UNCHANGED <<chatkit_threads, chatkit_thread_items, last, listing, sessions,
                chatkit_attachments, stored, attachment_last, sqlVars>>

\* a client calls an operation; generate_attachment_id gives an unused id
BeginCall(call) ==
    /\ task = NoTask
    /\ calls_left > 0
    /\ call.op = "create_attachment" =>
          call.attachment_id \notin DOMAIN attachments \cup DOMAIN files
    /\ calls_left' = calls_left - 1
    /\ task' = [call |-> call, program |-> Program(call), pc |-> 1]
    /\ UNCHANGED <<threads, items, attachments, files, lock, files_lock>>
    /\ UnchangedByTask

\* async with self._lock: entered at once, the lock being free
AcquireLock ==
    /\ AtStatement /\ Statement.do = "acquire"
    /\ ~Held(Statement.on)
    /\ lock' = IF Statement.on = StoreLock THEN TRUE ELSE lock
    /\ files_lock' = IF Statement.on = FilesLock THEN TRUE ELSE files_lock
    /\ task' = [task EXCEPT !.pc = @ + 1]
    /\ UNCHANGED <<threads, items, attachments, files, calls_left>>
    /\ UnchangedByTask

\* the end of the async with block, by its last statement or by a raise
ReleaseLock ==
    /\ AtStatement /\ Statement.do = "release"
    /\ lock' = IF Statement.on = StoreLock THEN FALSE ELSE lock
    /\ files_lock' = IF Statement.on = FilesLock THEN FALSE ELSE files_lock
    /\ task' = [task EXCEPT !.pc = @ + 1]
    /\ UNCHANGED <<threads, items, attachments, files, calls_left>>
    /\ UnchangedByTask

\* a statement that reads or writes a stored collection
Access ==
    /\ AtStatement /\ Statement.do \in {"read", "write"}
    /\ task' = [task EXCEPT !.pc = @ + 1]
    /\ UNCHANGED <<threads, items, attachments, files, calls_left, lock, files_lock>>
    /\ UnchangedByTask

\* the operation returns or raises
Return ==
    /\ task # NoTask /\ ~AtStatement
    /\ threads' = Effect(task.call).threads
    /\ items' = Effect(task.call).items
    /\ attachments' = Effect(task.call).attachments
    /\ files' = Effect(task.call).files
    /\ task' = NoTask
    /\ UNCHANGED <<calls_left, lock, files_lock>>
    /\ UnchangedByTask

NextLock ==
    \/ \E call \in InMemoryCalls : BeginCall(call)
    \/ AcquireLock
    \/ ReleaseLock
    \/ Access
    \/ Return

\* the in-memory backend, one statement at a time
SpecLock == InitReads /\ [][NextLock]_vars

(***************************************************************************)
(* Reading a whole collection page by page, and the orderings.             *)
(***************************************************************************)
\* every paginated read a caller can make: [kind, backend, thread_id, after, limit, order]
Reads ==
    [kind : {"items"}, backend : Backends, thread_id : ThreadIds,
     after : {NoCursor} \cup ItemIds, limit : Limits, order : Orders]
    \cup
    [kind : {"threads"}, backend : Backends, thread_id : {0},
     after : {NoCursor} \cup ThreadIds, limit : Limits, order : Orders]

PageOf(r) ==
    IF r.kind = "items"
    THEN LoadThreadItems(r.backend, r.thread_id, r.after, r.limit, r.order)
    ELSE LoadThreads(r.backend, r.limit, r.after, r.order)

\* the listed collection of a read, as a function id -> created_at of the stored row
Collection(r) ==
    IF r.kind = "items"
    THEN StoreKeys(r.backend, items, chatkit_thread_items, r.thread_id)
    ELSE IF r.backend = "mem"
    THEN [i \in Keys(threads) |-> threads[IndexOf(threads, i)].created_at]
    ELSE [i \in DOMAIN chatkit_threads |-> chatkit_threads[i].created_at]

\* first call with after=None, then the returned cursor while has_more; at most
\* `fuel` calls.  ok is FALSE when a call raised or the fuel ran out.
RECURSIVE FollowCursor(_, _)
FollowCursor(r, fuel) ==
    LET page == PageOf(r)
    IN IF page.err # "ok" \/ fuel = 0 THEN [ok |-> FALSE, ids |-> <<>>]
       ELSE IF ~page.has_more THEN [ok |-> TRUE, ids |-> Ids(page.data)]
       ELSE LET rest == FollowCursor([r EXCEPT !.after = page.after], fuel - 1)
            IN [ok |-> rest.ok, ids |-> Ids(page.data) \o rest.ids]

\* the whole collection in one page
Unpaged(r) ==
    PageOf([r EXCEPT !.after = NoCursor, !.limit = Cardinality(DOMAIN Collection(r))])

\* C1 (as claimed): for every collection, limit >= 1 and order, the pages read by
\* following the cursor, concatenated, are the whole collection in the store's
\* order, every row once.
C1_PaginationLossless ==
    \A r \in Reads :
        (r.after = NoCursor /\ r.limit >= 1) =>
            LET n == Cardinality(DOMAIN Collection(r))
                got == FollowCursor(r, n + 1)
            IN /\ got.ok
               /\ got.ids = Ids(Unpaged(r).data)
               /\ Len(got.ids) = n
               /\ {got.ids[k] : k \in 1..Len(got.ids)} = DOMAIN Collection(r)

\* C2 (as claimed): every page is ordered by created_at in the requested direction,
\* rows of equal created_at by ascending id.
C2_PagesOrderedByCreatedAtThenId ==
    \A r \in Reads :
        LET page == PageOf(r)
        IN page.err = "ok" =>
              \A k \in 1..(Len(page.data) - 1) :
                  SortsBefore(r.order, page.data[k].created_at, page.data[k].id,
                              page.data[k + 1].created_at, page.data[k + 1].id)

\* C3 (as claimed): the same read gives the same outcome in both backends: the
\* same ids in the same order, the same has_more and cursor, or the same error.
C3_BackendsEquivalent ==
    \A r \in Reads :
        r.backend = "mem" =>
            LET m == PageOf(r)
                p == PageOf([r EXCEPT !.backend = "pg"])
            IN /\ m.err = p.err
               /\ Ids(m.data) = Ids(p.data)
               /\ m.has_more = p.has_more
               /\ m.after = p.after

\* C4 (as claimed): a read whose after names no row of the listed collection
\* raises NotFoundError.
C4_UnknownCursorNotFound ==
    \A r \in Reads :
        (r.after # NoCursor /\ r.after \notin DOMAIN Collection(r)) =>
            PageOf(r).err = "NotFoundError"

\* the rows of the listed collection that lie after the page's last row (after the
\* cursor when the page is empty) in the order created_at <order>, id ascending
RowsBeyond(r, page) ==
    LET col == Collection(r)
        ref == IF page.data # <<>> THEN page.data[Len(page.data)].id ELSE r.after
    IN IF ref \in DOMAIN col
       THEN {i \in DOMAIN col : SortsBefore(r.order, col[ref], ref, col[i], i)}
       ELSE DOMAIN col

\* C5 (as claimed): a page holds at most limit rows, and has_more is true exactly
\* when a row of the collection lies beyond the page.
C5_HasMoreIffRowsBeyond ==
    \A r \in Reads :
        LET page == PageOf(r)
        IN page.err = "ok" =>
              /\ Len(page.data) <= r.limit
              /\ page.has_more <=> (RowsBeyond(r, page) # {})

\* C6 (as claimed): for every limit, 0 included, has_more comes with the id of the
\* page's last row as cursor, and no has_more with no cursor.
C6_CursorWheneverHasMore ==
    \A r \in Reads :
        LET page == PageOf(r)
        IN page.err = "ok" =>
              /\ page.has_more =>
                    /\ page.data # <<>>
                    /\ page.after = page.data[Len(page.data)].id
              /\ ~page.has_more => page.after = NoCursor

\* C6 (amended): the cursor is the id of the page's last row when has_more is true
\* and the page holds a row, which it does for every limit >= 1; it is None when
\* has_more is false, and also when the page is empty (limit = 0).
C6_CursorIsLastRowOfNonEmptyPage ==
    \A r \in Reads :
        LET page == PageOf(r)
        IN page.err = "ok" =>
              /\ (page.has_more /\ page.data # <<>>) =>
                    page.after = page.data[Len(page.data)].id
              /\ (~page.has_more \/ page.data = <<>>) => page.after = NoCursor
              /\ (page.has_more /\ r.limit >= 1) => page.data # <<>>

\* C6 witness: in both backends a limit-0 read reports has_more without a cursor,
\* and a limit-1 read reports has_more with its last row as cursor.
C6_Witness ==
    \A b \in Backends :
        /\ \E r \in Reads :
              /\ r.backend = b /\ r.limit = 0
              /\ PageOf(r).err = "ok" /\ PageOf(r).has_more /\ PageOf(r).after = NoCursor
        /\ \E r \in Reads :
              /\ r.backend = b /\ r.limit >= 1 /\ r.kind = "items"
              /\ PageOf(r).err = "ok" /\ PageOf(r).has_more
              /\ PageOf(r).after = PageOf(r).data[Len(PageOf(r).data)].id

\* C7 (as claimed), on the listings that the descending keyset comparison of C1
\* leaves whole when nothing changes (every in-memory listing, the ascending
\* relational ones): a row that is in the listed thread, with one ordering key,
\* from the first page call to the last is in exactly one page: never in two, and
\* in one once the listing has ended, whatever calls the store received between
\* the pages.
C7_ExactlyOnceUnderMutation ==
    (listing.backend = "mem" \/ listing.order = "asc") =>
        /\ \A i \in listing.stable : listing.seen[i] <= 1
        /\ listing.phase \in {"done", "failed"} =>
              \A i \in listing.stable : listing.seen[i] = 1

\* the pages of thread t once it is saved again, in both stores
ResavedPages(t) ==
    {InMemoryStore_load_thread_items(
         InMemoryStore_save_thread(threads, items, [id |-> t, created_at |-> c]).items,
         t, NoCursor, limit, order) : c \in Times, limit \in Limits, order \in Orders}
    \cup
    {PostgresStore_load_thread_items(
         PostgresStore_save_thread(chatkit_threads, chatkit_thread_items,
                                   [id |-> t, created_at |-> c]).items,
         t, NoCursor, limit, order) : c \in Times, limit \in Limits, order \in Orders}

\* C8: after delete_thread(T), in both stores, load_thread(T) and load_item(T, i)
\* for every i raise NotFoundError; and saving a thread that a store does not hold
\* gives a thread whose load_thread_items page is empty.
C8_DeleteThreadRemovesItems ==
    /\ last.op = "delete_thread" =>
          /\ InMemoryStore_load_thread(threads, last.thread_id) = "NotFoundError"
          /\ PostgresStore_load_thread(chatkit_threads, last.thread_id) = "NotFoundError"
          /\ \A i \in ItemIds :
                /\ InMemoryStore_load_item(threads, items, last.thread_id, i)
                      = "NotFoundError"
                /\ PostgresStore_load_item(chatkit_thread_items, last.thread_id, i)
                      = "NotFoundError"
    /\ \A t \in ThreadIds :
          (t \notin Keys(threads) /\ t \notin DOMAIN chatkit_threads) =>
              \A page \in ResavedPages(t) :
                  page.err = "ok" /\ page.data = <<>> /\ ~page.has_more

\* C8 witness: delete_thread has just removed a thread that held items in both stores
C8_Witness ==
    /\ last.op = "delete_thread"
    /\ last.had_items
    /\ last.thread_id \notin Keys(threads)
    /\ last.thread_id \notin DOMAIN chatkit_threads

\* C9: add_thread_item on a thread the store does not hold raises NotFoundError and
\* leaves the store's threads and items as they were, in both stores.
C9_AddThreadItemAbsentThread ==
    [][(last'.op = "add_thread_item" /\ calls_left' = calls_left - 1) =>
          /\ last'.thread_id \notin Keys(threads) =>
                /\ last'.mem = "NotFoundError"
                /\ threads' = threads
                /\ items' = items
          /\ last'.thread_id \notin DOMAIN chatkit_threads =>
                /\ last'.pg = "NotFoundError"
                /\ chatkit_threads' = chatkit_threads
                /\ chatkit_thread_items' = chatkit_thread_items]_vars

\* C9 witness: both stores hold a thread and items, and have just refused an
\* add_thread_item on another thread with NotFoundError
C9_Witness ==
    /\ last.op = "add_thread_item"
    /\ last.mem = "NotFoundError"
    /\ last.pg = "NotFoundError"
    /\ threads # <<>>
    /\ DOMAIN chatkit_thread_items # {}

\* C10 (as claimed): save_item on a thread that holds no item of that id raises
\* NotFoundError and leaves the store as it was, in both stores, also when another
\* thread holds an item of that id.
C10_SaveItemAbsentItem ==
    [][(last'.op = "save_item" /\ calls_left' = calls_left - 1) =>
          /\ last'.item_id \notin Keys(ItemsGet(items, last'.thread_id)) =>
                /\ last'.mem = "NotFoundError"
                /\ threads' = threads
                /\ items' = items
          /\ last'.item_id \notin DOMAIN PgKeys(chatkit_thread_items, last'.thread_id) =>
                /\ last'.pg = "NotFoundError"
                /\ chatkit_threads' = chatkit_threads
                /\ chatkit_thread_items' = chatkit_thread_items]_vars

(***************************************************************************)
(* What the stores hold after any sequence of calls.                       *)
(***************************************************************************)
\* the threads of a store that hold an item of id i
MemHolders(i) == {t \in DOMAIN items : i \in Keys(items[t])}
PgHolders(i) == {t \in ThreadIds : i \in DOMAIN PgKeys(chatkit_thread_items, t)}

\* C11 (as claimed): in both stores an item id is held by at most one thread.
C11_ItemIdInOneThread ==
    \A i \in ItemIds :
        /\ Cardinality(MemHolders(i)) <= 1
        /\ Cardinality(PgHolders(i)) <= 1

\* C12: in both stores every stored item belongs to a thread the store holds, after
\* any sequence of calls, and in the relational store after any interleaving of them.
C12_ItemsBelongToExistingThread ==
    /\ \A t \in DOMAIN items : items[t] # <<>> => t \in Keys(threads)
    /\ \A i \in DOMAIN chatkit_thread_items :
          chatkit_thread_items[i].thread_id \in DOMAIN chatkit_threads

\* C12 witness: an add_thread_item that found its thread, and whose commit was
\* refused because the thread was deleted in between
C12_Witness ==
    \E w \in Callers :
        /\ sessions[w].op = "add_thread_item"
        /\ sessions[w].pc = "exit"
        /\ sessions[w].row.found
        /\ sessions[w].err = "IntegrityError"
        /\ sessions[w].thread_id \notin DOMAIN chatkit_threads
        /\ sessions[w].item_id \notin DOMAIN chatkit_thread_items

\* C17: a PostgresStore operation holds exactly one session while it runs and none
\* once it has ended, whether it returned or raised NotFoundError or a database error.
C17_SessionReleasedOnEveryExit ==
    \A w \in Callers :
        /\ sessions[w].pc \in {"session", "commit", "exit"} => sessions[w].open = 1
        /\ sessions[w].pc \in {"idle", "done"} => sessions[w].open = 0

\* C17 witness: one operation has ended with NotFoundError and another with a
\* database error, and both have ended
C17_Witness ==
    \E w, v \in Callers :
        /\ sessions[w].pc = "done" /\ sessions[w].err = "NotFoundError"
        /\ sessions[v].pc = "done" /\ sessions[v].err = "IntegrityError"

(***************************************************************************)
(* Attachments: bytes and upload_url.                                      *)
(***************************************************************************)
\* C13 (as claimed): get_file_bytes raises NotFoundError in both backends for every
\* id that store_file_bytes was never called on, or not since the attachment store's
\* delete_attachment: an unknown id, a created attachment, a deleted one.
C13_NoBytesNotFound ==
    \A a \in AttachmentIds :
        a \notin stored =>
            /\ InMemoryAttachmentStore_get_file_bytes(attachments, files, a).err
                  = "NotFoundError"
            /\ PostgresAttachmentStore_get_file_bytes(chatkit_attachments, a).err
                  = "NotFoundError"

\* C14 (as claimed): in both backends store_file_bytes raises NotFoundError when the
\* store holds no attachment of that id, and otherwise succeeds, after which
\* get_file_bytes of that id returns the payload just stored.
C14_StoreFileBytesThenGet ==
    [][attachment_last'.op = "store_file_bytes" =>
          LET a == attachment_last'.id
              m == InMemoryAttachmentStore_get_file_bytes(attachments', files', a)
              p == PostgresAttachmentStore_get_file_bytes(chatkit_attachments', a)
          IN /\ a \notin DOMAIN attachments => attachment_last'.mem = "NotFoundError"
             /\ a \in DOMAIN attachments =>
                   /\ attachment_last'.mem = "ok"
                   /\ m.err = "ok" /\ m.payload = attachment_last'.payload
             /\ a \notin DOMAIN chatkit_attachments => attachment_last'.pg = "NotFoundError"
             /\ a \in DOMAIN chatkit_attachments =>
                   /\ attachment_last'.pg = "ok"
                   /\ p.err = "ok" /\ p.payload = attachment_last'.payload
      ]_<<attachments, files, chatkit_attachments, attachment_last>>

\* C15: in both backends the attachment create_attachment saves has its upload_url
\* set; mark_attachment_uploaded raises NotFoundError on an id the store does not
\* hold and otherwise leaves load_attachment's upload_url None, as does a completed
\* upload (store_file_bytes, then mark_attachment_uploaded); and no call but
\* save_attachment turns the upload_url of a stored attachment from None to set.
C15_UploadUrlLifecycle ==
    [][LET op == attachment_last'.op
           a == attachment_last'.id
           m == InMemoryStore_load_attachment(attachments', a)
           p == PostgresStore_load_attachment(chatkit_attachments', a)
       IN /\ op = "create_attachment" =>
                /\ m.err = "ok" /\ m.upload_url # "None"
                /\ p.err = "ok" /\ p.upload_url # "None"
          /\ op = "mark_attachment_uploaded" =>
                /\ a \notin DOMAIN attachments => attachment_last'.mem = "NotFoundError"
                /\ a \in DOMAIN attachments =>
                      attachment_last'.mem = "ok" /\ m.err = "ok" /\ m.upload_url = "None"
                /\ a \notin DOMAIN chatkit_attachments =>
                      attachment_last'.pg = "NotFoundError"
                /\ a \in DOMAIN chatkit_attachments =>
                      attachment_last'.pg = "ok" /\ p.err = "ok" /\ p.upload_url = "None"
          /\ op = "upload_attachment" =>
                /\ attachment_last'.mem = "ok" => m.err = "ok" /\ m.upload_url = "None"
                /\ attachment_last'.pg = "ok" => p.err = "ok" /\ p.upload_url = "None"
          /\ \A b \in AttachmentIds :
                /\ ( /\ InMemoryStore_load_attachment(attachments, b)
                            = [err |-> "ok", upload_url |-> "None"]
                      /\ InMemoryStore_load_attachment(attachments', b).upload_url # "None" )
                      => op = "save_attachment"
                /\ ( /\ PostgresStore_load_attachment(chatkit_attachments, b)
                            = [err |-> "ok", upload_url |-> "None"]
                      /\ PostgresStore_load_attachment(chatkit_attachments', b).upload_url
                            # "None" )
                      => op = "save_attachment"
      ]_<<attachments, files, chatkit_attachments, attachment_last>>

\* C15 witness: a created attachment was uploaded: both backends hold the bytes, and
\* load_attachment returns it with upload_url None
C15_Witness ==
    LET a == attachment_last.id
    IN /\ attachment_last.op = "upload_attachment"
       /\ attachment_last.mem = "ok" /\ attachment_last.pg = "ok"
       /\ attachment_last.payload = "x"
       /\ InMemoryStore_load_attachment(attachments, a) = [err |-> "ok", upload_url |-> "None"]
       /\ PostgresStore_load_attachment(chatkit_attachments, a)
             = [err |-> "ok", upload_url |-> "None"]
       /\ InMemoryAttachmentStore_get_file_bytes(attachments, files, a).payload = "x"
       /\ PostgresAttachmentStore_get_file_bytes(chatkit_attachments, a).payload = "x"

(***************************************************************************)
(* The locks of the in-memory backend.                                     *)
(***************************************************************************)
\* C16 (as claimed): every statement of the in-memory backend that reads or writes a
\* stored collection (threads, items, attachment metadata, attachment bytes) runs
\* while the lock of the store that owns the collection is held.
C16_EveryAccessUnderLock ==
    (AtStatement /\ Statement.do \in {"read", "write"}) => Held(LockOf(Statement.on))

(***************************************************************************)
(* tools/peoplesoft/sql_builder.py: build_sql.  The SQL text is kept as    *)
(* the sequence of its pieces, cut around every "%s" placeholder, so the   *)
(* text is the concatenation of the pieces and the placeholders are the    *)
(* pieces equal to "%s".  A filter value and a bind value is a record:     *)
(* a scalar x is [list |-> FALSE, v |-> <<x>>], a list is [list |-> TRUE,  *)
(* v |-> the elements].  limit is [given |-> FALSE] for None.              *)
(***************************************************************************)
OP_MAP == [op \in {"=", "!=", ">", "<", ">=", "<=", "LIKE", "IN", "BETWEEN"} |-> op]

MAX_LIMIT == 5000

Scalar(x) == [list |-> FALSE, v |-> <<x>>]
List(elements) == [list |-> TRUE, v |-> elements]
Limit(n) == [given |-> TRUE, n |-> n]
None == [given |-> FALSE, n |-> 0]

\* str.lower() and str.upper() on the strings that reach them here
Lower(s) ==
    CASE s = "GL_SUMMARY" -> "gl_summary"
      [] s = "Gl_Summary" -> "gl_summary"
      [] s = "AP_SUMMARY" -> "ap_summary"
      [] s = "DESC" -> "desc"
      [] s = "Desc" -> "desc"
      [] s = "ASC" -> "asc"
      [] OTHER -> s

Upper(s) ==
    CASE s = "left" -> "LEFT"
      [] s = "Left" -> "LEFT"
      [] s = "inner" -> "INNER"
      [] OTHER -> s

\* sep.join(strings)
RECURSIVE JoinStrings(_, _)
JoinStrings(strings, sep) ==
    IF Len(strings) = 0 THEN ""
    ELSE IF Len(strings) = 1 THEN strings[1]
    ELSE strings[1] \o sep \o JoinStrings(Tail(strings), sep)

\* sep.join(clauses), where a clause is itself a sequence of pieces
RECURSIVE JoinClauses(_, _)
JoinClauses(clauses, sep) ==
    IF Len(clauses) = 0 THEN <<>>
    ELSE IF Len(clauses) = 1 THEN clauses[1]
    ELSE clauses[1] \o <<sep>> \o JoinClauses(Tail(clauses), sep)

\* expression.format(alias=alias)
Format(expression, alias) ==
    JoinStrings([k \in 1..Len(expression) |->
                    IF expression[k] = "{alias}" THEN alias ELSE expression[k]], "")

\* a helper returned a value, or raised ValueError(message)
Returned(value) == [err |-> "ok", message |-> "", value |-> value]
ValueError(message) == [err |-> "ValueError", message |-> message, value |-> ""]

\* for logical, expr in fields.items(): join_field_map[logical] = expr
RECURSIVE UpdateEach(_, _)
UpdateEach(d, entries) ==
    IF Len(entries) = 0 THEN d
    ELSE UpdateEach(DictSet(d, Head(entries)), Tail(entries))

\* for j in joins_cfg: ... (lines 37-40), from the joins not yet visited
RECURSIVE JoinFieldLoop(_, _)
JoinFieldLoop(joins_cfg, map) ==
    IF Len(joins_cfg) = 0 THEN map
    ELSE JoinFieldLoop(Tail(joins_cfg), UpdateEach(map, Head(joins_cfg).fields))

join_field_map(cfg) == JoinFieldLoop(cfg.joins, <<>>)

\* a mistaken get_mapping: an unknown field falls back to the first mapped column
get_mapping_FallsBack(cfg, entity, field) ==
    LET field_map == cfg.field_map
        joined == join_field_map(cfg)
    IN  IF field \in Keys(field_map)
        THEN Returned(field_map[IndexOf(field_map, field)].mapping)
        ELSE IF field \in Keys(joined)
        THEN Returned(JoinExpression(joined[IndexOf(joined, field)].expr))
        ELSE Returned(field_map[1].mapping)

get_mapping(cfg, entity, field) ==
    LET field_map == cfg.field_map
        joined == join_field_map(cfg)
    IN  IF field \in Keys(field_map)
        THEN Returned(field_map[IndexOf(field_map, field)].mapping)
        ELSE IF field \in Keys(joined)
        THEN Returned(JoinExpression(joined[IndexOf(joined, field)].expr))
        ELSE ValueError("Field '" \o field \o "' is not available for entity '"
                        \o entity \o "'")

select_expression(cfg, entity, field) ==
    LET got == get_mapping(cfg, entity, field)
        mapping == got.value
        alias == cfg.alias
    IN  IF got.err # "ok" THEN got
        ELSE IF mapping.kind = "str"
        THEN Returned(alias \o "." \o mapping.column \o " AS " \o field)
        ELSE IF Len(mapping.expression) > 0
        THEN Returned(Format(mapping.expression, alias) \o " AS " \o field)
        ELSE IF mapping.join_expression # ""
        THEN Returned(mapping.join_expression \o " AS " \o field)
        ELSE IF mapping.column # ""
        THEN Returned(alias \o "." \o mapping.column \o " AS " \o field)
        ELSE ValueError("Field '" \o field \o "' is not selectable for entity '"
                        \o entity \o "'")

column_reference(cfg, entity, field, purpose) ==
    LET got == get_mapping(cfg, entity, field)
        mapping == got.value
        alias == cfg.alias
    IN  IF got.err # "ok" THEN got
        ELSE IF mapping.kind = "str"
        THEN Returned(alias \o "." \o mapping.column)
        ELSE IF Len(mapping.expression) > 0
        THEN Returned(Format(mapping.expression, alias))
        ELSE IF mapping.join_expression # ""
        THEN Returned(mapping.join_expression)
        ELSE IF mapping.column # ""
        THEN Returned(alias \o "." \o mapping.column)
        ELSE ValueError("Field '" \o field \o "' cannot be used in " \o purpose
                        \o " for entity '" \o entity \o "'")

\* columns = [_select_expression(f) for f in select]: the first raise ends it
RECURSIVE Columns(_, _, _, _)
Columns(cfg, entity, select, columns) ==
    IF Len(select) = 0 THEN Returned(columns)
    ELSE LET expr == select_expression(cfg, entity, Head(select))
         IN  IF expr.err # "ok" THEN expr
             ELSE Columns(cfg, entity, Tail(select), Append(columns, expr.value))

\* the loop over joins_cfg that appends every join to the text (lines 104-110)
RECURSIVE JoinsSql(_)
JoinsSql(joins_cfg) ==
    IF Len(joins_cfg) = 0 THEN ""
    ELSE LET j == Head(joins_cfg)
         IN  " " \o Upper(j.type) \o " JOIN " \o j.table \o " " \o j.alias \o " ON "
             \o JoinStrings(j.on, " AND ") \o JoinsSql(Tail(joins_cfg))

\* the loop over default_filters (lines 116-118)
RECURSIVE DefaultFilterLoop(_, _, _)
DefaultFilterLoop(default_filters, where_clauses, params) ==
    IF Len(default_filters) = 0 THEN [where_clauses |-> where_clauses, params |-> params]
    ELSE LET df == Head(default_filters)
         IN  DefaultFilterLoop(Tail(default_filters), Append(where_clauses, df.sql),
                               params \o df.params)

\* a mistaken Placeholders: one placeholder for the whole list
Placeholders_OnePerList(n) == <<"%s">>

\* ", ".join(["%s"] * n)
Placeholders(n) == JoinClauses([k \in 1..n |-> <<"%s">>], ", ")

\* a mistaken EmptyIn: an IN over no values
EmptyIn_NoValues(col) == <<col \o " IN ()">>

\* the predicate of IN over an empty list
EmptyIn(col) == <<"1=0">>

\* the branches of lines 132-148 for a filter that passed their checks:
\* the clause appended to where_clauses and the values added to params
FilterClause(col, op, value) ==
    IF op = "IN"
    THEN IF Len(value.v) = 0
         THEN [clause |-> EmptyIn(col), params |-> <<>>]
         ELSE [clause |-> <<col \o " IN (">> \o Placeholders(Len(value.v)) \o <<")">>,
               params |-> [k \in 1..Len(value.v) |-> Scalar(value.v[k])]]
    ELSE IF op = "BETWEEN"
    THEN [clause |-> <<col \o " BETWEEN ", "%s", " AND ", "%s">>,
          params |-> [k \in 1..Len(value.v) |-> Scalar(value.v[k])]]
    ELSE [clause |-> <<col \o " " \o OP_MAP[op] \o " ", "%s">>,
          params |-> <<value>>]

\* a mistaken filter_error: BETWEEN takes a list of any length
filter_error_BetweenAnyList(op, value) ==
    IF op \notin DOMAIN OP_MAP THEN "Unsupported operator '" \o op \o "'"
    ELSE IF op = "IN" /\ ~value.list THEN "IN operator requires a list value"
    ELSE IF op = "BETWEEN" /\ ~value.list THEN "BETWEEN operator requires [low, high]"
    ELSE ""

\* the checks of a filter's operator and value (lines 129-130, 133-134, 142-143):
\* the message of the ValueError raised, "" when none is
filter_error(op, value) ==
    IF op \notin DOMAIN OP_MAP THEN "Unsupported operator '" \o op \o "'"
    ELSE IF op = "IN" /\ ~value.list THEN "IN operator requires a list value"
    ELSE IF op = "BETWEEN" /\ (~value.list \/ Len(value.v) # 2)
    THEN "BETWEEN operator requires [low, high]"
    ELSE ""

\* for flt in filters (lines 122-148): the first raise ends it
RECURSIVE FilterLoop(_, _, _, _, _)
FilterLoop(cfg, entity, filters, where_clauses, params) ==
    IF Len(filters) = 0
    THEN [err |-> "ok", message |-> "", where_clauses |-> where_clauses, params |-> params]
    ELSE LET flt == Head(filters)
             col == column_reference(cfg, entity, flt.field, "filters")
             raise(message) ==
                 [err |-> "ValueError", message |-> message,
                  where_clauses |-> where_clauses, params |-> params]
             compiled == FilterClause(col.value, flt.op, flt.value)
         IN  IF col.err # "ok" THEN raise(col.message)
             ELSE IF filter_error(flt.op, flt.value) # ""
             THEN raise(filter_error(flt.op, flt.value))
             ELSE FilterLoop(cfg, entity, Tail(filters),
                             Append(where_clauses, compiled.clause),
                             params \o compiled.params)

\* the loop over group_by (lines 155-156)
RECURSIVE GroupLoop(_, _, _, _)
GroupLoop(cfg, entity, group_by, group_clauses) ==
    IF Len(group_by) = 0 THEN Returned(group_clauses)
    ELSE LET col == column_reference(cfg, entity, Head(group_by), "group by")
         IN  IF col.err # "ok" THEN col
             ELSE GroupLoop(cfg, entity, Tail(group_by), Append(group_clauses, col.value))

\* the loop over order_by (lines 163-168)
RECURSIVE OrderLoop(_, _, _, _)
OrderLoop(cfg, entity, order_by, order_clauses) ==
    IF Len(order_by) = 0 THEN Returned(order_clauses)
    ELSE LET ob == Head(order_by)
             direction == Lower(ob.direction)
             col == column_reference(cfg, entity, ob.field, "order by")
             dir_sql == IF direction = "desc" THEN "DESC" ELSE "ASC"
         IN  IF col.err # "ok" THEN col
             ELSE OrderLoop(cfg, entity, Tail(order_by),
                            Append(order_clauses, col.value \o " " \o dir_sql))

\* a mistaken eff_limit: the ceiling is not applied
eff_limit_NoCeiling(limit) == IF limit.given /\ limit.n # 0 THEN limit.n ELSE 1000

\* eff_limit = min(limit or 1000, MAX_LIMIT): None and 0 are falsy
eff_limit(limit) ==
    LET limit_or_1000 == IF limit.given /\ limit.n # 0 THEN limit.n ELSE 1000
    IN  IF limit_or_1000 < MAX_LIMIT THEN limit_or_1000 ELSE MAX_LIMIT

\* build_sql raised
Raised(message) == [NoResult EXCEPT !.err = "ValueError", !.message = message]

build_sql(entities, request) ==
    LET entity == Lower(request.entity)
        cfg == entities[IndexOf(entities, entity)].cfg
        columns == Columns(cfg, entity, request.select, <<>>)
        top_clause == "TOP " \o ToString(eff_limit(request.limit)) \o " "
        select_sql ==
            "SELECT " \o top_clause \o JoinStrings(columns.value, ", ") \o " FROM "
            \o cfg.table \o " " \o cfg.alias \o JoinsSql(cfg.joins)
        defaults == DefaultFilterLoop(cfg.default_filters, <<>>, <<>>)
        filtered ==
            FilterLoop(cfg, entity, request.filters, defaults.where_clauses, defaults.params)
        where_sql ==
            IF Len(filtered.where_clauses) > 0
            THEN <<" WHERE ">> \o JoinClauses(filtered.where_clauses, " AND ")
            ELSE <<>>
        grouped == GroupLoop(cfg, entity, request.group_by, <<>>)
        group_sql ==
            IF Len(grouped.value) > 0
            THEN <<" GROUP BY " \o JoinStrings(grouped.value, ", ")>>
            ELSE <<>>
        ordered == OrderLoop(cfg, entity, request.order_by, <<>>)
        order_sql ==
            IF Len(ordered.value) > 0
            THEN <<" ORDER BY " \o JoinStrings(ordered.value, ", ")>>
            ELSE <<>>
    IN  IF entity \notin Keys(entities) THEN Raised("Unknown entity '" \o entity \o "'")
        ELSE IF Len(request.select) = 0 THEN Raised("No select columns specified")
        ELSE IF columns.err # "ok" THEN Raised(columns.message)
        ELSE IF filtered.err # "ok" THEN Raised(filtered.message)
        ELSE IF grouped.err # "ok" THEN Raised(grouped.message)
        ELSE IF ordered.err # "ok" THEN Raised(ordered.message)
        ELSE [err |-> "ok", message |-> "",
              sql |-> <<select_sql>> \o where_sql \o group_sql \o order_sql,
              params |-> filtered.params,
              where_clauses |-> filtered.where_clauses,
              eff_limit |-> eff_limit(request.limit)]

\* a mistaken EntitiesAfter: params is the first default filter's own list, which
\* the call grows in place
EntitiesAfter_SharedParams(entities, result) ==
    IF result.err = "ok"
    THEN [entities EXCEPT ![1].cfg.default_filters[1].params = result.params]
    ELSE entities

\* ENTITIES after a call: params is a list of the call's own (line 113) and extend
\* copies the default filter's values into it (line 118), so the dict is as it was
EntitiesAfter(entities, result) == entities

(***************************************************************************)
(* The requests compiled.  Three families keep the set small: every list   *)
(* of filters on a fixed selection, every entity and limit on a fixed      *)
(* selection, and every selection, grouping and ordering with at most one  *)
(* filter.                                                                 *)
(***************************************************************************)
MaxFilters == 2
MaxSelect == 2
MaxCalls == 2

SeqsUpTo(S, n) == UNION {[1..k -> S] : k \in 0..n}

Request(entity, select, filters, limit, order_by, group_by) ==
    [entity |-> entity, select |-> select, filters |-> filters, limit |-> limit,
     order_by |-> order_by, group_by |-> group_by]

\* the filters: a declared and an undeclared field, a scalar operator, IN, BETWEEN
\* and an operator OP_MAP lacks, a scalar and lists of 0 to 3 elements
Filters ==
    [field : {"fiscal_year", "vendor"},
     op : {"=", "IN", "BETWEEN", "NOT IN"},
     value : {Scalar(2024), List(<<>>), List(<<7>>), List(<<7, 8>>), List(<<7, 8, 9>>)}]

Requests ==
    LET fields == {"fiscal_year", "amount_sum", "dept_descr", "vendor"}
        entities == {"gl_summary", "GL_SUMMARY", "ap_summary"}
        limits == {None, Limit(0 - 1), Limit(0), Limit(1), Limit(10), Limit(MAX_LIMIT),
                   Limit(MAX_LIMIT + 1)}
        order_bys == {<<>>, <<[field |-> "amount_sum", direction |-> "DESC"]>>,
                      <<[field |-> "fiscal_year", direction |-> "asc"]>>,
                      <<[field |-> "vendor", direction |-> "desc"]>>}
        group_bys == {<<>>, <<"fiscal_year">>, <<"dept_descr">>, <<"vendor">>}
        one_filter == <<[field |-> "dept_descr", op |-> ">=", value |-> Scalar(5)]>>
    IN  {Request("gl_summary", <<"fiscal_year">>, filters, Limit(10), <<>>, <<>>) :
            filters \in SeqsUpTo(Filters, MaxFilters)}
        \cup
        {Request(entity, <<"fiscal_year">>, <<>>, limit, <<>>, <<>>) :
            entity \in entities, limit \in limits}
        \cup
        {Request("gl_summary", select, filters, None, order_by, group_by) :
            select \in SeqsUpTo(fields, MaxSelect), filters \in {<<>>, one_filter},
            order_by \in order_bys, group_by \in group_bys}

\* one call of build_sql
Compile(request) ==
    LET result == build_sql(ENTITIES, request)
    IN  /\ sql_previous' = sql_result
        /\ sql_request' = request
        /\ sql_result' = result
        /\ ENTITIES' = EntitiesAfter(ENTITIES, result)
        /\ sql_calls' = sql_calls + 1
        /\ UNCHANGED <<threads, items, chatkit_threads, chatkit_thread_items, last,
                       calls_left, listing, sessions, attachmentVars, lockVars,
                       db_query, tool_call>>

\* the first call, with any request
BuildSql ==
    /\ sql_calls = 0
    /\ \E request \in Requests : Compile(request)

\* a later call with the arguments of the call before
BuildSqlAgain ==
    /\ sql_calls \in 1..(MaxCalls - 1)
    /\ Compile(sql_request)

NextSql == BuildSql \/ BuildSqlAgain

SpecSql == Init /\ [][NextSql]_vars

(***************************************************************************)
(* What the compiled query must look like, said without build_sql.         *)
(***************************************************************************)
\* the configuration of the entity a request names
EntityCfg(request) == ENTITIES[IndexOf(ENTITIES, Lower(request.entity))].cfg

\* the logical fields an entity declares, on its table or through a join
DeclaredFields(cfg) == Keys(cfg.field_map) \cup Keys(join_field_map(cfg))

\* the number of placeholders in a text
PlaceholderCount(pieces) == Cardinality({k \in 1..Len(pieces) : pieces[k] = "%s"})

\* the values a list of filters binds, in order: the elements of the list of an
\* IN or a BETWEEN, the value itself for any other operator
RECURSIVE BindValues(_)
BindValues(filters) ==
    IF Len(filters) = 0 THEN <<>>
    ELSE LET flt == Head(filters)
             own == IF flt.op \in {"IN", "BETWEEN"}
                    THEN [k \in 1..Len(flt.value.v) |-> Scalar(flt.value.v[k])]
                    ELSE <<flt.value>>
         IN  own \o BindValues(Tail(filters))

\* the values the default filters bind, in declared order
RECURSIVE DefaultBindValues(_)
DefaultBindValues(default_filters) ==
    IF Len(default_filters) = 0 THEN <<>>
    ELSE Head(default_filters).params \o DefaultBindValues(Tail(default_filters))

\* a sequence without its k-th element
RemoveAt(s, k) == [j \in 1..(Len(s) - 1) |-> IF j < k THEN s[j] ELSE s[j + 1]]

\* the k-th filter of the last request is an IN over an empty list on a declared field
EmptyInAt(k) ==
    LET flt == sql_request.filters[k]
    IN  /\ flt.op = "IN"
        /\ flt.value.list
        /\ Len(flt.value.v) = 0
        /\ flt.field \in DeclaredFields(EntityCfg(sql_request))

C19_PlaceholdersMatchParams ==
    sql_result.err = "ok" =>
        LET cfg == EntityCfg(sql_request)
            defaults == cfg.default_filters
            filters == sql_request.filters
            where_clauses == sql_result.where_clauses
            joined == JoinClauses(where_clauses, " AND ")
        IN  /\ PlaceholderCount(sql_result.sql) = Len(sql_result.params)
            /\ sql_result.params = DefaultBindValues(defaults) \o BindValues(filters)
            /\ Len(where_clauses) = Len(defaults) + Len(filters)
            /\ \A k \in 1..Len(defaults) : where_clauses[k] = defaults[k].sql
            /\ \A k \in 1..Len(filters) :
                  PlaceholderCount(where_clauses[Len(defaults) + k])
                      = Len(BindValues(<<filters[k]>>))
            /\ Len(where_clauses) > 0 =>
                  /\ sql_result.sql[2] = " WHERE "
                  /\ SubSeq(sql_result.sql, 3, 2 + Len(joined)) = joined

C19_Witness ==
    /\ sql_result.err = "ok"
    /\ Len(sql_request.filters) = 2
    /\ sql_request.filters[1].op = "BETWEEN"
    /\ sql_request.filters[2].op = "IN"
    /\ Len(sql_result.params) = 4

\* C20: an IN filter with an empty list on a declared field compiles to the
\* predicate "1=0" with no placeholder and no parameter; the call fails only if it
\* fails without that filter, and the other filters compile as they do without it.
C20_EmptyInIsAlwaysFalse ==
    \A k \in 1..Len(sql_request.filters) :
        EmptyInAt(k) =>
            LET without == [sql_request EXCEPT !.filters = RemoveAt(sql_request.filters, k)]
                rest == build_sql(ENTITIES, without)
                at == Len(EntityCfg(sql_request).default_filters) + k
            IN  /\ sql_result.err = rest.err
                /\ sql_result.message = rest.message
                /\ sql_result.err = "ok" =>
                      /\ sql_result.where_clauses[at] = <<"1=0">>
                      /\ RemoveAt(sql_result.where_clauses, at) = rest.where_clauses
                      /\ sql_result.params = rest.params

C20_Witness ==
    /\ sql_result.err = "ok"
    /\ Len(sql_request.filters) = 2
    /\ EmptyInAt(1)
    /\ Len(sql_result.params) = 2

\* the k-th filter of the last request is a BETWEEN whose value is not a list of
\* exactly two elements
BadBetweenAt(k) ==
    LET flt == sql_request.filters[k]
    IN  flt.op = "BETWEEN" /\ (~flt.value.list \/ Len(flt.value.v) # 2)

\* C21: a request holding a BETWEEN filter whose value is a scalar or a list of other
\* than two elements makes build_sql raise a validation error and return neither SQL
\* nor parameters; when the request is valid up to that filter, the error is the one
\* about BETWEEN.
C21_BadBetweenFails ==
    \A k \in 1..Len(sql_request.filters) :
        BadBetweenAt(k) =>
            /\ sql_result.err = "ValueError"
            /\ sql_result.sql = <<>>
            /\ sql_result.params = <<>>
            /\ LET before == [sql_request EXCEPT !.filters = SubSeq(sql_request.filters, 1, k - 1)]
                   flt == sql_request.filters[k]
               IN  (build_sql(ENTITIES, before).err = "ok"
                    /\ flt.field \in DeclaredFields(EntityCfg(sql_request)))
                   => sql_result.message = "BETWEEN operator requires [low, high]"

C21_Witness ==
    /\ sql_calls >= 1
    /\ Len(sql_request.filters) = 2
    /\ sql_request.filters[1].op = "IN"
    /\ sql_request.filters[1].field = "fiscal_year"
    /\ Len(sql_request.filters[1].value.v) = 2
    /\ BadBetweenAt(2)
    /\ Len(sql_request.filters[2].value.v) = 3
    /\ sql_result.message = "BETWEEN operator requires [low, high]"

\* the text of the last compiled query opens with SELECT TOP n
EmitsTop(n) ==
    LET opening == "SELECT TOP " \o ToString(n) \o " "
        text == sql_result.sql[1]
    IN  Len(text) >= Len(opening) /\ SubSeq(text, 1, Len(opening)) = opening

\* C22 as stated: the TOP clause carries min(limit, 5000) whenever a limit is given,
\* and 1000 when it is omitted.
C22_TopIsMinOfLimit ==
    sql_result.err = "ok" =>
        LET limit == sql_request.limit
        IN  IF limit.given
            THEN EmitsTop(IF limit.n < 5000 THEN limit.n ELSE 5000)
            ELSE EmitsTop(1000)

\* C22, amended: the TOP clause carries min(limit, 5000) when a limit other than 0 is
\* given (5000 for a limit above 5000, L for 1 <= L <= 5000), and 1000 when the limit
\* is omitted or is 0.
C22_TopIsMinOfLimitOr1000 ==
    sql_result.err = "ok" =>
        LET limit == sql_request.limit
        IN  /\ (limit.given /\ limit.n # 0) =>
                  EmitsTop(IF limit.n < 5000 THEN limit.n ELSE 5000)
            /\ (limit.given /\ limit.n > 5000) => EmitsTop(5000)
            /\ (limit.given /\ limit.n \in 1..5000) => EmitsTop(limit.n)
            /\ (~limit.given \/ limit.n = 0) => EmitsTop(1000)

C22_Witness ==
    /\ sql_result.err = "ok"
    /\ sql_request.limit.given
    /\ sql_request.limit.n > 5000
    /\ EmitsTop(5000)

\* C27: for every limit, 0 and negative ones included, and for an omitted limit, the
\* number in the TOP clause is between 1 and 5000.
C27_TopWithinRange ==
    sql_result.err = "ok" => \E n \in 1..5000 : n = sql_result.eff_limit /\ EmitsTop(n)

\* the fields the last request names, in the order build_sql resolves them: select,
\* filters, group_by, order_by
RequestedFields ==
    sql_request.select
    \o [k \in 1..Len(sql_request.filters) |-> sql_request.filters[k].field]
    \o sql_request.group_by
    \o [k \in 1..Len(sql_request.order_by) |-> sql_request.order_by[k].field]

\* the positions of the requested fields that the entity does not declare
UndeclaredAt ==
    LET declared == DeclaredFields(EntityCfg(sql_request))
        requested == RequestedFields
    IN  {k \in 1..Len(requested) : requested[k] \notin declared}

Configurations ==
    LET Expose(j, logical) ==
            [GL_SUMMARY EXCEPT !.joins[j].fields =
                DictSet(@, [id |-> logical, expr |-> GL_SUMMARY.joins[j].alias \o ".ALT"])]
    IN  {entities_ENTITIES}
        \cup {<<[id |-> "gl_summary", cfg |-> Expose(j, logical)]>> :
                 j \in 1..Len(GL_SUMMARY.joins),
                 logical \in {"fiscal_year", "dept_descr", "vendor"}}

InitResolve ==
    /\ threads = <<>>
    /\ items = EmptyFn
    /\ chatkit_threads = EmptyFn
    /\ chatkit_thread_items = EmptyFn
    /\ listing = NoListing
    /\ sessions = [w \in Callers |-> NoSession]
    /\ NoAttachments
    /\ calls_left = MaxOps
    /\ last = NoCall
    /\ ENTITIES \in Configurations
    /\ sql_request = NoRequest
    /\ sql_result = NoResult
    /\ sql_previous = NoResult
    /\ sql_calls = 0
    /\ db_query = NoQuery
    /\ tool_call = NoToolCall

SpecResolve == InitResolve /\ [][NextSql]_vars

\* the column a field stands for by the rule "field_map, then the joins in declared
\* order, first match wins"
FirstMatch(cfg, field) ==
    LET field_map == cfg.field_map
        mapping == field_map[IndexOf(field_map, field)].mapping
        exposing == {j \in 1..Len(cfg.joins) : field \in Keys(cfg.joins[j].fields)}
        first == CHOOSE j \in exposing : \A i \in exposing : j <= i
        fields == cfg.joins[first].fields
    IN  IF field \in Keys(field_map)
        THEN IF mapping.kind = "str" THEN cfg.alias \o "." \o mapping.column
             ELSE Format(mapping.expression, cfg.alias)
        ELSE fields[IndexOf(fields, field)].expr

MaxPieces == 3
MaxParams == 3

PyNone == [list |-> FALSE, v |-> <<>>]

\* a mistaken bind_name: the keys count from 1
bind_name_FromOne(i) == "p" \o ToString(i + 1)

\* f"p{i}"
bind_name(i) == "p" \o ToString(i)

\* the loop over the parts of the split text (lines 48-54), from the pieces not yet
\* visited; i is the number of markers passed
RECURSIVE RewriteLoop(_, _, _, _, _)
RewriteLoop(pieces, i, params, new_sql_parts, bind_params) ==
    IF Len(pieces) = 0 THEN [sql |-> new_sql_parts, bind_params |-> bind_params]
    ELSE IF Head(pieces) = "%s"
    THEN RewriteLoop(Tail(pieces), i + 1, params,
                     Append(new_sql_parts, ":p" \o ToString(i)),
                     DictSet(bind_params,
                             [id |-> bind_name(i),
                              value |-> IF i < Len(params) THEN params[i + 1] ELSE PyNone]))
    ELSE RewriteLoop(Tail(pieces), i, params, Append(new_sql_parts, Head(pieces)),
                     bind_params)

run_query(sql, params, engine) ==
    LET rewritten ==
            IF \E k \in 1..Len(sql) : sql[k] = "%s"
            THEN RewriteLoop(sql, 0, params, <<>>, <<>>)
            ELSE [sql |-> sql,
                  bind_params |-> [idx \in 1..Len(params) |->
                                      [id |-> bind_name(idx - 1), value |-> params[idx]]]]
    IN  [called |-> TRUE, sql |-> sql, params |-> params,
         new_sql |-> rewritten.sql, bind_params |-> rewritten.bind_params,
         raised |-> engine.fails,
         rows |-> IF engine.fails THEN <<>> ELSE [k \in 1..engine.rows |-> k]]

\* what the engine does with a statement: it raises, or returns 0, 1 or 2 rows
Engines == {[fails |-> TRUE, rows |-> 0]} \cup {[fails |-> FALSE, rows |-> n] : n \in 0..2}

\* one call of run_query
RunQuery ==
    /\ ~db_query.called
    /\ \E sql \in SeqsUpTo({"SELECT ", "%s"}, MaxPieces),
          params \in SeqsUpTo({Scalar(2024), Scalar(7)}, MaxParams),
          engine \in Engines :
            db_query' = run_query(sql, params, engine)
    /\ UNCHANGED <<threads, items, chatkit_threads, chatkit_thread_items, last, calls_left,
                   listing, sessions, attachmentVars, lockVars, ENTITIES, sql_request,
                   sql_result, sql_previous, sql_calls, tool_call>>

SpecQuery == Init /\ [][RunQuery]_vars

\* the positions of the markers in the text of the last run_query call
MarkersAt == {k \in 1..Len(db_query.sql) : db_query.sql[k] = "%s"}

\* the number of markers before position k
MarkersBefore(k) == Cardinality({j \in MarkersAt : j < k})

\* the k-th marker (from 0) became :pk, every other piece is as it was, and the name pk
\* is bound to the k-th parameter, to None beyond the parameters
MarkersRewritten ==
    /\ Len(db_query.new_sql) = Len(db_query.sql)
    /\ \A k \in 1..Len(db_query.sql) :
          IF k \in MarkersAt
          THEN LET name == "p" \o ToString(MarkersBefore(k))
               IN  /\ db_query.new_sql[k] = ":" \o name
                   /\ name \in Keys(db_query.bind_params)
                   /\ db_query.bind_params[IndexOf(db_query.bind_params, name)].value
                        = IF MarkersBefore(k) < Len(db_query.params)
                          THEN db_query.params[MarkersBefore(k) + 1]
                          ELSE PyNone
          ELSE db_query.new_sql[k] = db_query.sql[k]
    /\ Len(db_query.params) = Cardinality(MarkersAt) =>
          \A k \in 1..Len(db_query.bind_params) : db_query.bind_params[k].value # PyNone

\* C26 as stated: run_query rewrites the k-th marker to :pk and binds pk to the k-th
\* parameter, and the bind names are as many as the markers.
C26_BindNamesMatchMarkers ==
    db_query.called =>
        /\ MarkersRewritten
        /\ Cardinality(Keys(db_query.bind_params)) = Cardinality(MarkersAt)

\* C26, amended: run_query rewrites the k-th marker to :pk and binds pk to the k-th
\* parameter; when the text holds at least one marker the bind names are as many as
\* the markers, and when it holds none the text is unchanged and every parameter k is
\* bound to the name pk.
C26_BindNamesMatchMarkersIfAny ==
    db_query.called =>
        /\ MarkersRewritten
        /\ MarkersAt # {} =>
              /\ Len(db_query.bind_params) = Cardinality(MarkersAt)
              /\ Cardinality(Keys(db_query.bind_params)) = Cardinality(MarkersAt)
        /\ MarkersAt = {} =>
              /\ Len(db_query.bind_params) = Len(db_query.params)
              /\ \A k \in 1..Len(db_query.params) :
                    /\ db_query.bind_params[k].id = "p" \o ToString(k - 1)
                    /\ db_query.bind_params[k].value = db_query.params[k]

C26_Witness ==
    /\ db_query.called
    /\ db_query.sql = <<"SELECT ", "%s", "%s">>
    /\ db_query.params = <<Scalar(7), Scalar(2024)>>
    /\ db_query.new_sql = <<"SELECT ", ":p0", ":p1">>
    /\ db_query.bind_params = <<[id |-> "p0", value |-> Scalar(7)],
                                [id |-> "p1", value |-> Scalar(2024)]>>

(***************************************************************************)
(* tools/peoplesoft/tool.py: query_ps_finance.  A call is a request and    *)
(* the form of its group_by entries: FinanceGroupBy models, strings, dicts *)
(* with a "field", or dicts without one.  An omitted limit is the          *)
(* parameter's default, 1000.                                              *)
(***************************************************************************)
GroupForms == {"model", "str", "dict", "dict_without_field"}

\* what the caller of query_ps_finance gets: an exception, {"error": ...} or
\* {"entity": ..., "row_count": ..., "rows": ...}
query_ps_finance(entities, request, group_form, engine) ==
    LET limit == IF request.limit.given THEN request.limit ELSE Limit(1000)
        base == [NoToolCall EXCEPT !.called = TRUE, !.request = request]
        \* the statements that follow the one call of build_sql
        after_build_sql(compiled) ==
            LET ran == run_query(compiled.sql, compiled.params, engine)
            IN  IF compiled.err = "ValueError"
                THEN [base EXCEPT !.error = compiled.message]
                ELSE IF ran.raised
                THEN [base EXCEPT !.raised = TRUE, !.compiled = TRUE, !.ran_query = TRUE]
                ELSE [base EXCEPT !.compiled = TRUE, !.ran_query = TRUE,
                                  !.entity = request.entity, !.row_count = Len(ran.rows),
                                  !.rows = ran.rows]
    IN  IF group_form = "dict_without_field" /\ Len(request.group_by) > 0
        THEN [base EXCEPT !.raised = TRUE]
        ELSE CHOOSE returned \in
                 {after_build_sql(compiled) :
                      compiled \in {build_sql(entities, [request EXCEPT !.limit = limit])}} :
                 TRUE

\* one call of query_ps_finance
QueryPsFinance ==
    /\ ~tool_call.called
    /\ \E request \in {r \in Requests : /\ Len(r.filters) <= 1
                                       /\ Len(r.select) <= 1
                                       /\ Len(r.order_by) = 0},
          group_form \in GroupForms, engine \in Engines :
            tool_call' = query_ps_finance(ENTITIES, request, group_form, engine)
    /\ UNCHANGED <<threads, items, chatkit_threads, chatkit_thread_items, last, calls_left,
                   listing, sessions, attachmentVars, lockVars, ENTITIES, sql_request,
                   sql_result, sql_previous, sql_calls, db_query>>

SpecTool == Init /\ [][QueryPsFinance]_vars

\* C25: query_ps_finance never raises to its caller: a request that does not compile
\* (a malformed group_by entry included) gives {error: message} without run_query
\* being called, an engine failure gives {error: message}, and otherwise the result is
\* {entity, row_count, rows} with row_count the number of rows.
C25_NeverRaises ==
    tool_call.called =>
        /\ ~tool_call.raised
        /\ ~tool_call.compiled => (tool_call.error # "" /\ ~tool_call.ran_query)
        /\ tool_call.error = "" =>
              /\ tool_call.entity = tool_call.request.entity
              /\ tool_call.row_count = Len(tool_call.rows)

\* C28: when both callers have run save_thread for the same thread id, each on its
\* own session and each having found no row for that id in its lookup, both calls
\* have completed without error and one row with that id exists, holding the data of
\* one of the two calls.
C28_ConcurrentSaveThreadUpserts ==
    (/\ \A w \in Callers : sessions[w].pc = "done" /\ sessions[w].op = "save_thread"
                             /\ ~sessions[w].row.found
     /\ sessions["a"].thread_id = sessions["b"].thread_id) =>
        /\ \A w \in Callers : sessions[w].err = "ok"
        /\ sessions["a"].thread_id \in DOMAIN chatkit_threads
        /\ \E w \in Callers :
              chatkit_threads[sessions["a"].thread_id].created_at = sessions[w].created_at

\* C29: a store_file_bytes call that raises NotFoundError leaves the stored bytes and
\* the attachment metadata of its backend as they were before the call.
C29_FailedStoreFileBytesChangesNothing ==
    [][attachment_last'.op = "store_file_bytes" =>
          /\ attachment_last'.mem = "NotFoundError" =>
                (files' = files /\ attachments' = attachments)
          /\ attachment_last'.pg = "NotFoundError" =>
                chatkit_attachments' = chatkit_attachments
      ]_<<attachments, files, chatkit_attachments, attachment_last>>

\* the calls a listing makes on the stores as they are: the read r, then the same
\* read with the cursor returned, until a page has has_more false or a call raises;
\* done is FALSE when `fuel` further calls did not get there
RECURSIVE PagingCalls(_, _)
PagingCalls(r, fuel) ==
    LET page == PageOf(r)
    IN  IF page.err # "ok" \/ ~page.has_more THEN [done |-> page.err = "ok", calls |-> 1]
        ELSE IF fuel = 0 THEN [done |-> FALSE, calls |-> 1]
        ELSE LET rest == PagingCalls([r EXCEPT !.after = page.after], fuel - 1)
             IN  [done |-> rest.done, calls |-> 1 + rest.calls]

====
